---------------------------- MODULE Spec2Model ----------------------------
(***************************************************************************)
(* A model of the convergence engine of swarm-chat-js: the ref-banning     *)
(* message-state fetch pipeline, the live per-user feed reader, message    *)
(* sending, the history merge / trim / updater election functions, the     *)
(* timers and poll loop of a chat session, the bounded cache of loaded     *)
(* messages, retryAwaitableAsync, the reaction state loader and the        *)
(* polling transport.                                                      *)
(*                                                                         *)
(* The repository holds several variants of the same classes.  Each part   *)
(* of the model names the file and lines it is translated from.  Every     *)
(* part has its own specification (Init.. /\ [][Next..]_vars); the         *)
(* variables of the other parts stay at their construction values.         *)
(***************************************************************************)
EXTENDS Integers, Sequences, FiniteSets, TLC

VARIABLES
  \* SwarmHistory, message-state variant (unnamed/part_020:14-214)
  processedRefs,      \* Set<string>
  refRetryCount,      \* Map<string, number>, a function on the keys present
  bannedRefs,         \* Set<string>
  chain,              \* the async call chains of init() / fetchPreviousMessageState()
  downloads,          \* ghost: downloadObjectFromBee invocations per reference
  alwaysFails,        \* oracle: the references whose processing fails on every attempt
  \* SwarmChat, active-user variant (unnamed/part_003) and its Queue (src/index.ts)
  activeUsers,        \* UserMap in insertion order: a sequence of [address, index]
  userIndexCache,     \* Record<string, number>, a function on the keys present
  tasks,              \* Queue.tasks: the users (as announced at enqueue time) to read
  isProcessing,       \* Queue.isProcessing
  isWaiting,          \* Queue.isWaiting
  running,            \* the readMessage call awaiting fetchUserFeedDataByIndex, or NoRead
  calls,              \* ghost: the last two completed readMessage calls for Observed
  \* SwarmChat.sendMessage (unnamed/part_003:115-147, 276-336) with
  \* waitForBroadcast (src/utils/waitForBroadcast.ts:65-95)
  ownIndex,           \* the index of the own feed's latest entry, -1 before the first
  sender,             \* the sendMessage calls in progress, one record per caller
  broadcasts,         \* own announcements (their feed index) the GSOC node accepted
  liveWrites,         \* ghost: per feed index, the feed writes started and not failed
  \* SwarmHistory, history variant (unnamed/part_020:244-718): the pure functions
  remoteHistory,      \* mergeChatHistory's first argument
  localHistory,       \* mergeChatHistory's second argument
  keepsFirst,         \* oracle: which duplicate mergeUnique keeps
  mergeResult,        \* the results of the merges applied so far
  history,            \* SwarmHistory.history, a sequence of users in insertion order
  maxSizeBytes,       \* trimHistory's maxSizeMB, in bytes
  trimBatch,          \* trimHistory's trimBatch
  trimInput,          \* ghost: <<the history trimHistory was applied to>>, or NotTrimmed
  updaterEntryBuffer, \* SwarmHistory.updaterEntryBuffer
  selections,         \* the results of the selectBestEntryForUpdate calls so far
  \* The interval timers of SwarmChat (unnamed/part_003:84-98, 390-418) and of
  \* SwarmHistory (unnamed/part_020:311-324)
  fetchMessageTimer,        \* the handle setInterval returned, or NoTimer
  idleUserCleanupInterval,  \* the handle setInterval returned, or NoTimer
  historyUpdateTimer,       \* the handle setInterval returned, or NoTimer
  nextHandle,               \* the runtime: the last handle setInterval gave out
  liveIntervals,            \* the runtime: the intervals set and not cleared
  fired,                    \* ghost: the callback invocations per callback
  sessionCall,              \* ghost: the last two calls made on the session
  \* The poll loop of SwarmChat (src/lib/core.ts:26-28, 56-65, 157-183, 211-232)
  gsocIndex,                \* FeedIndex | null
  initsPending,             \* the init() calls that did not settle yet
  fetchProcessRunning,
  stopFetch,
  pollPc,                   \* where the poll closure stands, "none" when no loop exists
  fetchCount,               \* ghost: the fetchLatestMessage invocations
  lastCall,                 \* ghost: the last of the start() / stop() calls
  \* stop() of either variant (unnamed/part_003:92-98, src/lib/core.ts:61-65)
  stopped,                  \* stop() has returned
  counterAtStop,            \* ghost: per sendMessage call, its broadcast() count at stop()
  \* SwarmChat.init and initOwnIndex (unnamed/part_003:177-211) with
  \* retryAwaitableAsync (src/utils/common.ts:19-41)
  initPc,                   \* "none", "waiting" (at Promise.allSettled), "resolved", "rejected"
  ownIndexPc,               \* initOwnIndex: "idle", "fetching", "sleeping", "settled"
  retries,                  \* the retries argument of the current retryAwaitableAsync call
  ownIndexResult,           \* "pending", "fulfilled" or "rejected"
  historyInitResult,        \* history.init(): "pending", "fulfilled" or "rejected"
  initEvents,               \* the events init() emitted, in order
  \* SwarmHistory, the checkpoint updater (unnamed/part_020:244-420, 695-717)
  \* fed by SwarmChat.processGsocEvent (unnamed/part_003:245-274)
  historyEntry,             \* the latest known history entry
  processedUpdaterRefs,     \* the candidate references already published for
  mutexLocked,              \* the Mutex of SwarmHistory is held
  create,                   \* the createHistoryEntry call: its position and locals
  pending,                  \* processHistoryUpdaterEntry calls awaiting mutex.acquire()
  fetchPc,                  \* fetchPreviousMessages: "idle", "acquiring" or "inside"
  published,                \* the history entries the GSOC node accepted from this peer
  store,                    \* the history objects uploaded to Swarm, addressed by content
  latestMessage,            \* SwarmChat.latestMessage
  completions,              \* ghost: per candidate reference, its completed publications
  consumed,                 \* ghost: the generationIds of the candidates whose run published
  lastUpdateUsers,          \* ghost: the addresses the last updateLocalHistory call iterated,
                            \* {"none"} before the first call
  \* waitForBroadcast (src/utils/waitForBroadcast.ts:65-95) on its own
  waiter,                   \* the waitForBroadcast calls: position, options and counters
  conditionHolds,           \* the environment: what condition() of a call returns now
  \* SwarmHistory.init of the history variant (unnamed/part_020:290-309)
  historyInitPc,            \* "none", "fetchingEntry", "fetchingHistory",
                            \* "fetchingPrevious" or "returned"
  initEntry,                \* the local `entry` of init(), NoEntry for null
  initLost,                 \* ghost: entries of the local history init() dropped
  \* selectLatestMessages with the bounded cache (lib/history.ts:304-341)
  allTimeUsers,             \* the user histories selectLatestMessages is called with
  loadedMessagesCache,      \* SwarmHistory.loadedMessagesCache, in insertion order
  loadClock,                \* the timestamp of the next message entry
  latestMessages,           \* the return value of the last selectLatestMessages call
  returnedBefore,           \* ghost: the cache keys earlier calls returned
  returnedAgain,            \* ghost: the cache keys a call returned again
  loadCalls,                \* the fetchPreviousMessages calls made
  \* the chat feed the poll loop reads (src/lib/core.ts:157-183)
  chatFeed,                 \* the messages on the chat feed, by feed index: valid or invalid
  received,                 \* ghost: the feed indexes emitted as MESSAGE_RECEIVED
  \* retryAwaitableAsync on its own (unnamed/part_027:17-39)
  retryCall,                \* the outermost retryAwaitableAsync call: position, arguments and ghosts
  \* SwarmReaction.loadReactionState (unnamed/part_016:9-101)
  currReactionStateRef,     \* string or null (NoReactionRef)
  latestPendingRef,         \* string or null (NoReactionRef)
  reactionIsProcessing,     \* SwarmReaction.isProcessing
  reactionRetryCount,       \* SwarmReaction.refRetryCount
  reactionBannedRefs,       \* SwarmReaction.bannedRefs
  reactionDownload,         \* the reference processLatestRef is downloading, or NoReactionRef
  lastRequestedRef,         \* ghost: the argument of the last loadReactionState call
  failedReactionRefs,       \* ghost: the references whose download or validation failed
  \* PollingTransport (unnamed/part_028:12-64)
  transportIsRunning,       \* PollingTransport.isRunning
  stopRequested,            \* PollingTransport.stopRequested
  messageCallback,          \* onMessage was called: a callback is set
  fetchingChains,           \* the poll() calls awaiting fetchMessage
  scheduledChains,          \* the pending setTimeout(() => this.poll(), interval) timers
  callbackCalled            \* ghost: the callback was called with a message

refVars == <<processedRefs, refRetryCount, bannedRefs, chain, downloads, alwaysFails>>
userVars == <<activeUsers>>
readVars == <<userIndexCache, tasks, isProcessing, isWaiting, running, calls>>
sendVars == <<ownIndex, sender, broadcasts, liveWrites>>

mergeVars == <<remoteHistory, localHistory, keepsFirst, mergeResult>>
trimVars == <<history, maxSizeBytes, trimBatch, trimInput>>
selectVars == <<updaterEntryBuffer, selections>>
timerVars == <<fetchMessageTimer, idleUserCleanupInterval, historyUpdateTimer, nextHandle,
               liveIntervals, fired, sessionCall>>
pollVars == <<gsocIndex, initsPending, fetchProcessRunning, stopFetch, pollPc, fetchCount, lastCall>>
stopVars == <<stopped, counterAtStop>>
bootVars == <<initPc, ownIndexPc, retries, ownIndexResult, historyInitResult, initEvents>>
updVars == <<historyEntry, processedUpdaterRefs, mutexLocked, create, pending, fetchPc,
             published, store, latestMessage, completions, consumed, lastUpdateUsers>>

waitVars == <<waiter, conditionHolds>>
hinitVars == <<historyInitPc, initEntry, initLost>>
loadVars == <<allTimeUsers, loadedMessagesCache, loadClock, latestMessages, returnedBefore,
              returnedAgain, loadCalls>>
feedVars == <<chatFeed, received>>
retryVars == <<retryCall>>
reactVars == <<currReactionStateRef, latestPendingRef, reactionIsProcessing, reactionRetryCount, reactionBannedRefs, reactionDownload, lastRequestedRef, failedReactionRefs>>
transportVars == <<transportIsRunning, stopRequested, messageCallback, fetchingChains, scheduledChains, callbackCalled>>
vars == <<refVars, userVars, readVars, sendVars, mergeVars, trimVars, selectVars,
          timerVars, pollVars, stopVars, bootVars, updVars, waitVars, hinitVars,
          loadVars, feedVars, retryVars, reactVars, transportVars>>

\* What the actions of a part leave alone: the variables of the other parts
RefFrame ==
  UNCHANGED <<userVars, readVars, sendVars, mergeVars, trimVars, selectVars,
              timerVars, pollVars, stopVars, bootVars, updVars, waitVars, hinitVars,
              loadVars, feedVars, retryVars, reactVars, transportVars>>
ReadFrame ==
  UNCHANGED <<refVars, sendVars, mergeVars, trimVars, selectVars, timerVars,
              pollVars, stopVars, bootVars, updVars, waitVars, hinitVars, loadVars,
              feedVars, retryVars, reactVars, transportVars>>
SendFrame ==
  UNCHANGED <<refVars, readVars, mergeVars, trimVars, selectVars, timerVars,
              pollVars, stopVars, bootVars, updVars, waitVars, hinitVars, loadVars,
              feedVars, retryVars, reactVars, transportVars>>
MergeFrame ==
  UNCHANGED <<refVars, userVars, readVars, sendVars, trimVars, selectVars, timerVars,
              pollVars, stopVars, bootVars, updVars, waitVars, hinitVars, loadVars,
              feedVars, retryVars, reactVars, transportVars>>
TrimFrame ==
  UNCHANGED <<refVars, userVars, readVars, sendVars, mergeVars, selectVars,
              timerVars, pollVars, stopVars, bootVars, updVars, waitVars, hinitVars,
              loadVars, feedVars, retryVars, reactVars, transportVars>>
SelectFrame ==
  UNCHANGED <<refVars, userVars, readVars, sendVars, mergeVars, trimVars, timerVars,
              pollVars, stopVars, bootVars, updVars, waitVars, hinitVars, loadVars,
              feedVars, retryVars, reactVars, transportVars>>
TimerFrame ==
  UNCHANGED <<refVars, userVars, readVars, sendVars, mergeVars, trimVars, selectVars,
              pollVars, stopVars, bootVars, updVars, waitVars, hinitVars, loadVars,
              feedVars, retryVars, reactVars, transportVars>>
PollFrame ==
  UNCHANGED <<refVars, userVars, readVars, sendVars, mergeVars, trimVars, selectVars,
              timerVars, stopVars, bootVars, updVars, waitVars, hinitVars, loadVars,
              feedVars, retryVars, reactVars, transportVars>>
StopFrame ==
  UNCHANGED <<refVars, userVars, readVars, sendVars, mergeVars, trimVars, selectVars,
              timerVars, pollVars, bootVars, updVars, waitVars, hinitVars, loadVars,
              feedVars, retryVars, reactVars, transportVars>>
RefStopFrame ==
  UNCHANGED <<userVars, readVars, sendVars, mergeVars, trimVars, selectVars,
              timerVars, pollVars, bootVars, updVars, waitVars, hinitVars, loadVars,
              feedVars, retryVars, reactVars, transportVars>>
BootFrame ==
  UNCHANGED <<refVars, userVars, readVars, sendVars, mergeVars, trimVars, selectVars,
              timerVars, pollVars, stopVars, updVars, waitVars, hinitVars, loadVars,
              feedVars, retryVars, reactVars, transportVars>>
SendBootFrame ==
  UNCHANGED <<refVars, userVars, readVars, mergeVars, trimVars, selectVars,
              timerVars, pollVars, stopVars, updVars, waitVars, hinitVars, loadVars,
              feedVars, retryVars, reactVars, transportVars>>
UpdFrame ==
  UNCHANGED <<refVars, userVars, readVars, sendVars, mergeVars, trimVars, selectVars,
              timerVars, pollVars, stopVars, bootVars, waitVars, hinitVars, loadVars,
              feedVars, retryVars, reactVars, transportVars>>
HistoryFrame ==
  UNCHANGED <<refVars, readVars, sendVars, mergeVars, timerVars, pollVars, stopVars,
              bootVars, waitVars, hinitVars, loadVars, feedVars, retryVars,
              reactVars, transportVars>>
WaitFrame ==
  UNCHANGED <<refVars, userVars, readVars, sendVars, mergeVars, trimVars, selectVars,
              timerVars, pollVars, stopVars, bootVars, updVars, hinitVars, loadVars,
              feedVars, retryVars, reactVars, transportVars>>
HinitFrame ==
  UNCHANGED <<refVars, userVars, readVars, sendVars, mergeVars, trimVars, selectVars,
              timerVars, pollVars, stopVars, bootVars, updVars, waitVars, loadVars,
              feedVars, retryVars, reactVars, transportVars>>
HistoryInitFrame ==
  UNCHANGED <<refVars, readVars, sendVars, mergeVars, timerVars, pollVars, stopVars,
              bootVars, waitVars, loadVars, feedVars, retryVars, reactVars,
              transportVars>>
LoadFrame ==
  UNCHANGED <<refVars, userVars, readVars, sendVars, mergeVars, trimVars, selectVars,
              timerVars, pollVars, stopVars, bootVars, updVars, waitVars, hinitVars,
              feedVars, retryVars, reactVars, transportVars>>
FeedFrame ==
  UNCHANGED <<refVars, userVars, readVars, sendVars, mergeVars, trimVars, selectVars,
              timerVars, pollVars, stopVars, bootVars, updVars, waitVars, hinitVars,
              loadVars, retryVars, reactVars, transportVars>>
PollFeedFrame ==
  UNCHANGED <<refVars, userVars, readVars, sendVars, mergeVars, trimVars, selectVars,
              timerVars, stopVars, bootVars, updVars, waitVars, hinitVars, loadVars,
              retryVars, reactVars, transportVars>>
RetryFrame ==
  UNCHANGED <<refVars, userVars, readVars, sendVars, mergeVars, trimVars, selectVars,
              timerVars, pollVars, stopVars, bootVars, updVars, waitVars, hinitVars,
              loadVars, feedVars, reactVars, transportVars>>
ReactFrame ==
  UNCHANGED <<refVars, userVars, readVars, sendVars, mergeVars, trimVars, selectVars,
              timerVars, pollVars, stopVars, bootVars, updVars, waitVars, hinitVars,
              loadVars, feedVars, retryVars, transportVars>>
TransportFrame ==
  UNCHANGED <<refVars, userVars, readVars, sendVars, mergeVars, trimVars, selectVars,
              timerVars, pollVars, stopVars, bootVars, updVars, waitVars, hinitVars,
              loadVars, feedVars, retryVars, reactVars>>

-----------------------------------------------------------------------------
(* Generic helpers *)

\* Array.prototype.sort((a, b) => a.timestamp - b.timestamp): a stable sort,
\* ascending by timestamp.
RECURSIVE InsertByTimestamp(_, _)
InsertByTimestamp(e, s) ==
  IF s = << >> THEN <<e>>
  ELSE IF Head(s).timestamp <= e.timestamp
       THEN <<Head(s)>> \o InsertByTimestamp(e, Tail(s))
       ELSE <<e>> \o s

RECURSIVE SortByTimestamp(_)
SortByTimestamp(s) ==
  IF s = << >> THEN << >>
  ELSE InsertByTimestamp(s[Len(s)], SortByTimestamp(SubSeq(s, 1, Len(s) - 1)))

\* Map.delete / delete obj[key]
MapDelete(m, k) == [x \in DOMAIN m \ {k} |-> m[x]]

\* Map.set / obj[key] = v
MapSet(m, k, v) == [x \in DOMAIN m \cup {k} |-> IF x = k THEN v ELSE m[x]]

EmptyMap == [x \in {} |-> 0]

Range(s) == {s[i] : i \in DOMAIN s}

-----------------------------------------------------------------------------
(* Domains, program constants and the construction state of every part *)

MAX_RETRIES == 3

Refs == {"r1", "r2"}
Chains == {"c1", "c2"}

\* The messageStateRefs a latest chat message can carry: every reference has
\* one publication timestamp, the list comes in any order.
RefTimestamp(r) == IF r = "r1" THEN 1 ELSE 2
StateRef(r) == [reference |-> r, timestamp |-> RefTimestamp(r)]
RefLists ==
  { << >>, <<StateRef("r1")>>, <<StateRef("r2")>>,
    <<StateRef("r1"), StateRef("r2")>>, <<StateRef("r2"), StateRef("r1")>> }

IdleChain == [pc |-> "idle", kind |-> "none", ref |-> "none", todo |-> << >>]

Users == {"u1", "u2"}

\* Feed entries exist at the indexes 0..MaxIndex of every user; a read beyond
\* them fails (not found).
MaxIndex == 3

\* The indexes a user is announced with: the observed user's announcements
\* range over its whole feed, every other user has written one message.
AnnouncedIndexes(u) == IF u = "u1" THEN 0..MaxIndex ELSE {0}

NoIndex == -1
NoRead == [address |-> "none", index |-> NoIndex, nextIndex |-> NoIndex, cachedIndex |-> NoIndex]

RefInit ==
  /\ processedRefs = {}
  /\ refRetryCount = EmptyMap
  /\ bannedRefs = {}
  /\ chain = [c \in Chains |-> IdleChain]
  /\ downloads = [r \in Refs |-> 0]
  /\ alwaysFails \in SUBSET Refs

RefIdle == RefInit /\ alwaysFails = {}

UserInit == activeUsers = << >>

ReadInit ==
  /\ userIndexCache = EmptyMap
  /\ tasks = << >>
  /\ isProcessing = FALSE
  /\ isWaiting = FALSE
  /\ running = NoRead
  /\ calls = << >>

ReadIdle == ReadInit

Senders == {"s1", "s2"}
OWN == "u1"

\* waitForBroadcast's default maxRetries
maxRetries == 5

\* sendMessage is not called again once the own feed holds the indexes 0..MaxSendIndex
MaxSendIndex == 1

IdleSender == [pc |-> "idle", nextIndex |-> NoIndex, counter |-> 0, announce |-> NoIndex,
               events |-> << >>, outcome |-> "none", written |-> FALSE, failure |-> "none"]

SendInit ==
  /\ ownIndex = -1
  /\ sender = [s \in Senders |-> IdleSender]
  /\ broadcasts = {}
  /\ liveWrites = [i \in 0..MaxSendIndex |-> 0]

SendIdle == SendInit

\* History snapshots: the feed indexes and timestamps of the message entries
EntryIndexes == {0, 1}
MaxTs == 2
Timestamps == 1..MaxTs
MessageEntries == [index : EntryIndexes, timestamp : Timestamps]

\* The message entries of one user as the history keeps them: at most one
\* entry per index, ascending by timestamp, not empty.
EntryLists(maxLen) ==
  {l \in UNION {[1..n -> MessageEntries] : n \in 1..maxLen} :
     /\ \A i, j \in DOMAIN l : i # j => l[i].index # l[j].index
     /\ \A i, j \in DOMAIN l : i < j => l[i].timestamp <= l[j].timestamp}

\* "u1" has up to two entries, every other user one.
UserHistories(u) ==
  [address : {u}, events : {<< >>},
   messageEntries : EntryLists(IF u = "u1" THEN Cardinality(EntryIndexes) ELSE 1)]

\* allTimeUsers, in the insertion order of its keys
Histories ==
  {<< >>}
    \cup UNION {{<<h>> : h \in UserHistories(u)} : u \in Users}
    \cup UNION {{<<h, g>> : h \in UserHistories(u), g \in UserHistories(v)} :
                 <<u, v>> \in {p \in Users \X Users : p[1] # p[2]}}

MergeInit ==
  /\ remoteHistory \in Histories
  /\ localHistory \in Histories
  /\ keepsFirst \in BOOLEAN
  /\ mergeResult = << >>

MergeIdle ==
  /\ remoteHistory = << >>
  /\ localHistory = << >>
  /\ keepsFirst = TRUE
  /\ mergeResult = << >>

\* trimHistory's arguments: a budget nothing fits, one a small history fits,
\* one every history fits; batches from 0 to MaxBatch entries.
MaxSizes == {0, 100, 1000}
MaxBatch == 3
NotTrimmed == << >>

TrimInit ==
  /\ history \in Histories
  /\ maxSizeBytes \in MaxSizes
  /\ trimBatch \in 0..MaxBatch
  /\ trimInput = NotTrimmed

TrimIdle ==
  /\ history = << >>
  /\ maxSizeBytes = 0
  /\ trimBatch = 0
  /\ trimInput = NotTrimmed

\* ChatHistoryEntry candidates of the updater election
ownAddress == "u1"
MaxId == 1
MaxBuffer == 2
HistoryEntries == [id : 0..MaxId, ref : Refs, updater : Users, timestamp : Timestamps]
EntryBuffers == UNION {[1..n -> HistoryEntries] : n \in 0..MaxBuffer}
MaxCalls == 2

\* null, the result of reduce over no entries
NoEntry == [id |-> NoIndex, ref |-> "", updater |-> "", timestamp |-> 0]

SelectInit ==
  /\ updaterEntryBuffer \in EntryBuffers
  /\ selections = << >>

SelectIdle ==
  /\ updaterEntryBuffer = << >>
  /\ selections = << >>

\* null, the value of a timer field that holds no interval
NoTimer == 0

\* setInterval is not called once MaxHandles handles were given out; the
\* callbacks of an interval are counted up to MaxFired
MaxHandles == 7
MaxFired == 2
Callbacks == {"readAllActiveUserMessage", "removeIdleUsers", "createHistoryEntry"}

TimerInit ==
  /\ fetchMessageTimer = NoTimer
  /\ idleUserCleanupInterval = NoTimer
  /\ historyUpdateTimer = NoTimer
  /\ nextHandle = 0
  /\ liveIntervals = {}
  /\ fired = [c \in Callbacks |-> 0]
  /\ sessionCall = << >>

TimerIdle == TimerInit

\* The feed indexes of the chat feed the poll loop reads, the cap of the
\* fetchLatestMessage count, and the init() calls start() may leave unsettled
MaxGsocIndex == 2
MaxFetches == 4
MaxPendingInits == 2

PollInit ==
  /\ gsocIndex = NoIndex
  /\ initsPending = 0
  /\ fetchProcessRunning = FALSE
  /\ stopFetch = FALSE
  /\ pollPc = "none"
  /\ fetchCount = 0
  /\ lastCall = "none"

PollIdle == PollInit

\* stop() has not been called
StopInit ==
  /\ stopped = FALSE
  /\ counterAtStop = [s \in Senders |-> 0]
StopIdle == StopInit

\* const RETRY_COUNT = 10 of initOwnIndex
RETRY_COUNT == 10

\* init() has not been called
BootInit ==
  /\ initPc = "none"
  /\ ownIndexPc = "idle"
  /\ retries = RETRY_COUNT
  /\ ownIndexResult = "pending"
  /\ historyInitResult = "pending"
  /\ initEvents = << >>
BootIdle == BootInit

\* initializeDefaultEntry: { id: 0, ref: '', updater: ownAddress, timestamp: Date.now() }
DefaultEntry == [id |-> 0, ref |-> "", updater |-> ownAddress, timestamp |-> 0]

\* A GSOC message without messageSender, and no message at all
NoSender == [address |-> "", index |-> NoIndex, timestamp |-> 0]
NoMessage == [messageSender |-> NoSender, historyEntry |-> NoEntry]

\* The locals of a createHistoryEntry call; outcome tells how the last call
\* ended.
IdleCreate ==
  [pc |-> "idle", snapshot |-> << >>, latest |-> NoEntry, fetched |-> "",
   fetchedId |-> NoIndex, newHistory |-> << >>, newEntry |-> NoEntry, counter |-> 0,
   outcome |-> "none"]

\* The history entries published in a run, and the history entries held at a
\* time by waiting processHistoryUpdaterEntry calls and by the buffer
MaxPublished == 2
MaxCandidates == 2

\* The user announcements delivered over GSOC
MessageSenders ==
  {[address |-> "u1", index |-> 0, timestamp |-> 0],
   [address |-> "u2", index |-> 0, timestamp |-> 0],
   [address |-> "u2", index |-> 1, timestamp |-> 1]}

\* Date.now() at the publications: the clock does not advance within a run
UploadTimes == {0}

\* A SwarmHistory with the given history entry, while Swarm holds the given
\* history objects; everything else as constructed
UpdState(entry, objects) ==
  /\ historyEntry = entry
  /\ processedUpdaterRefs = {}
  /\ mutexLocked = FALSE
  /\ create = IdleCreate
  /\ pending = << >>
  /\ fetchPc = "idle"
  /\ published = {}
  /\ store = objects
  /\ latestMessage = NoMessage
  /\ completions = EmptyMap
  /\ consumed = {}
  /\ lastUpdateUsers = {"none"}

\* After history.init() found no entry: the default entry, an empty history
UpdInit == UpdState(DefaultEntry, {})
UpdIdle == UpdInit

\* The waitForBroadcast calls: options.maxRetries, the counter, and the ghosts
\* invoked (broadcast() invocations), threw (those that threw) and isProcessed
\* (what the last condition() returned)
Waiters == {"w1", "w2"}
\* options.maxRetries as callers pass it: a small budget, or none (the default)
RetryBudgets == {2, maxRetries}
IdleWaiter ==
  [pc |-> "idle", maxRetries |-> maxRetries, counter |-> 0, invoked |-> 0,
   threw |-> 0, isProcessed |-> FALSE, outcome |-> "pending"]

WaitInit ==
  /\ waiter = [w \in Waiters |-> IdleWaiter]
  /\ conditionHolds = [w \in Waiters |-> FALSE]
WaitIdle == WaitInit

\* The defaults of trimHistory(maxSizeMB = 2, trimBatch = 10000)
DefaultMaxSizeBytes == 2 * 1024 * 1024
DefaultTrimBatch == 10000

\* What the GSOC node and Swarm hold when a session starts: a snapshot another
\* peer uploaded, and as the historyEntry of the latest GSOC message either
\* the default entry carried by a user message or the entry of that snapshot
RemoteSnapshot ==
  <<[address |-> "u2", events |-> << >>,
     messageEntries |-> <<[index |-> 0, timestamp |-> 0]>>]>>
FetchedEntries ==
  {[id |-> 0, ref |-> "", updater |-> "u2", timestamp |-> 0],
   [id |-> 1, ref |-> ToString(RemoteSnapshot), updater |-> "u2", timestamp |-> 0]}

\* The checkpoints other peers publish while this peer runs: the entry of the
\* remote snapshot and its successor
PeerSnapshot ==
  <<[address |-> "u2", events |-> << >>,
     messageEntries |-> <<[index |-> 0, timestamp |-> 0], [index |-> 1, timestamp |-> 1]>>]>>
PeerEntries ==
  {[id |-> 1, ref |-> ToString(RemoteSnapshot), updater |-> "u2", timestamp |-> 0],
   [id |-> 2, ref |-> ToString(PeerSnapshot), updater |-> "u2", timestamp |-> 1]}

\* A SwarmHistory as constructed: historyEntry is not assigned (NoEntry)
UpdConstructed == UpdState(NoEntry, {RemoteSnapshot})

\* After history.init() among peers that uploaded their snapshots
UpdAmongPeers == UpdState(DefaultEntry, {RemoteSnapshot, PeerSnapshot})

\* SwarmHistory.init() has not been called
HinitInit ==
  /\ historyInitPc = "none"
  /\ initEntry = NoEntry
  /\ initLost = {}
HinitIdle == HinitInit

\* A SwarmHistory whose history is empty and that has loaded no message
LoadInit ==
  /\ allTimeUsers = << >>
  /\ loadedMessagesCache = << >>
  /\ loadClock = 0
  /\ latestMessages = << >>
  /\ returnedBefore = {}
  /\ returnedAgain = {}
  /\ loadCalls = 0
LoadIdle == LoadInit

\* An empty chat feed, nothing emitted
FeedInit ==
  /\ chatFeed = << >>
  /\ received = {}
FeedIdle == FeedInit

\* No retryAwaitableAsync call has been made
NoRetryCall ==
  [pc |-> "idle", retries |-> 0, delay |-> 0, n |-> 0, invoked |-> 0, slept |-> << >>,
   settled |-> "none", by |-> 0]
RetryInit == retryCall = NoRetryCall
RetryIdle == RetryInit

\* The reaction state references of a run; null
ReactionRefs == {"r1", "r2"}
NoReactionRef == "null"

\* A SwarmReaction as constructed
ReactInit ==
  /\ currReactionStateRef = NoReactionRef
  /\ latestPendingRef = NoReactionRef
  /\ reactionIsProcessing = FALSE
  /\ reactionRetryCount = EmptyMap
  /\ reactionBannedRefs = {}
  /\ reactionDownload = NoReactionRef
  /\ lastRequestedRef = NoReactionRef
  /\ failedReactionRefs = {}
ReactIdle == ReactInit

\* A PollingTransport as constructed
TransportInit ==
  /\ transportIsRunning = FALSE
  /\ stopRequested = FALSE
  /\ messageCallback = FALSE
  /\ fetchingChains = 0
  /\ scheduledChains = 0
  /\ callbackCalled = FALSE
TransportIdle == TransportInit

OthersIdle(groups) ==
  /\ "ref" \in groups \/ RefIdle
  /\ "user" \in groups \/ UserInit
  /\ "read" \in groups \/ ReadIdle
  /\ "send" \in groups \/ SendIdle
  /\ "merge" \in groups \/ MergeIdle
  /\ "trim" \in groups \/ TrimIdle
  /\ "select" \in groups \/ SelectIdle
  /\ "timer" \in groups \/ TimerIdle
  /\ "poll" \in groups \/ PollIdle
  /\ "stop" \in groups \/ StopIdle
  /\ "boot" \in groups \/ BootIdle
  /\ "upd" \in groups \/ UpdIdle
  /\ "wait" \in groups \/ WaitIdle
  /\ "hinit" \in groups \/ HinitIdle
  /\ "load" \in groups \/ LoadIdle
  /\ "feed" \in groups \/ FeedIdle
  /\ "retry" \in groups \/ RetryIdle
  /\ "react" \in groups \/ ReactIdle
  /\ "transport" \in groups \/ TransportIdle


-----------------------------------------------------------------------------
(* The message-state fetch pipeline: unnamed/part_020:14-214 *)

\* refs.reduce((latest, current) => current.timestamp > latest.timestamp ? current : latest)
RECURSIVE ReduceLatest(_, _)
ReduceLatest(latest, rest) ==
  IF rest = << >> THEN latest
  ELSE ReduceLatest(IF Head(rest).timestamp > latest.timestamp THEN Head(rest) ELSE latest,
                    Tail(rest))

findLatestRef(refs) == ReduceLatest(Head(refs), Tail(refs))

\* The guard of processMessageRefWithRetry, and of the loop of
\* fetchPreviousChatState: references already processed or banned are skipped.
RECURSIVE SkipSettled(_, _, _)
SkipSettled(todo, processed, banned) ==
  IF todo = << >> THEN << >>
  ELSE IF Head(todo).reference \in processed \cup banned
       THEN SkipSettled(Tail(todo), processed, banned)
       ELSE todo

\* The synchronous run of a chain up to its next await: the first reference of
\* todo that passes the guard has downloadObjectFromBee invoked for it; with
\* none left the call returns.
StartNext(c, kind, todo, processed, banned) ==
  LET t == SkipSettled(todo, processed, banned) IN
  IF t = << >>
  THEN /\ chain' = [chain EXCEPT ![c] = IdleChain]
       /\ UNCHANGED downloads
  ELSE /\ chain' = [chain EXCEPT ![c] = [pc |-> "downloading", kind |-> kind,
                                         ref |-> Head(t).reference, todo |-> Tail(t)]]
       /\ downloads' = [downloads EXCEPT ![Head(t).reference] = @ + 1]

\* SwarmHistory.init(): awaits fetchLatestChatMessage
CallInit(c) ==
  /\ chain[c].pc = "idle"
  /\ chain' = [chain EXCEPT ![c] = [IdleChain EXCEPT !.pc = "latest", !.kind = "init"]]
  /\ UNCHANGED <<processedRefs, refRetryCount, bannedRefs, downloads, alwaysFails>>
  /\ RefFrame

\* SwarmHistory.fetchPreviousMessageState() -> fetchPreviousChatState():
\* awaits fetchLatestChatMessage
CallFetchPreviousMessageState(c) ==
  /\ chain[c].pc = "idle"
  /\ chain' = [chain EXCEPT ![c] = [IdleChain EXCEPT !.pc = "latest", !.kind = "prev"]]
  /\ UNCHANGED <<processedRefs, refRetryCount, bannedRefs, downloads, alwaysFails>>
  /\ RefFrame

\* fetchLatestChatMessage resolved with a message carrying refs, and the caller
\* runs on to its first download: init picks the latest reference,
\* fetchPreviousChatState walks the references sorted by timestamp.
LatestChatMessageFetched(c, refs) ==
  /\ chain[c].pc = "latest"
  /\ IF chain[c].kind = "init"
     THEN IF refs = << >>
          THEN chain' = [chain EXCEPT ![c] = IdleChain] /\ UNCHANGED downloads
          ELSE StartNext(c, "init", <<findLatestRef(refs)>>, processedRefs, bannedRefs)
     ELSE StartNext(c, "prev", SortByTimestamp(refs), processedRefs, bannedRefs)
  /\ UNCHANGED <<processedRefs, refRetryCount, bannedRefs, alwaysFails>>
  /\ RefFrame

\* fetchLatestChatMessage rejected, or (init) the message failed
\* validateGsocMessage: the call ends without touching the ledger.
LatestChatMessageFailed(c) ==
  /\ chain[c].pc = "latest"
  /\ chain' = [chain EXCEPT ![c] = IdleChain]
  /\ UNCHANGED <<processedRefs, refRetryCount, bannedRefs, downloads, alwaysFails>>
  /\ RefFrame

\* processMessageRef after the download: a valid message state.
DownloadSucceeded(c) ==
  /\ chain[c].pc = "downloading"
  /\ chain[c].ref \notin alwaysFails
  /\ processedRefs' = processedRefs \cup {chain[c].ref}
  /\ refRetryCount' = MapDelete(refRetryCount, chain[c].ref)
  /\ StartNext(c, chain[c].kind, chain[c].todo, processedRefs', bannedRefs)
  /\ UNCHANGED <<bannedRefs, alwaysFails>>
  /\ RefFrame

\* handleRefError without the retry budget: the reference is banned at its
\* first failure.
DownloadFailed_BanAtOnce(c) ==
  /\ chain[c].pc = "downloading"
  /\ bannedRefs' = bannedRefs \cup {chain[c].ref}
  /\ refRetryCount' = MapDelete(refRetryCount, chain[c].ref)
  /\ StartNext(c, chain[c].kind, chain[c].todo, processedRefs, bannedRefs')
  /\ UNCHANGED <<processedRefs, alwaysFails>>
  /\ RefFrame

\* processMessageRef threw (the download returned null or an invalid state):
\* handleRefError counts the failure and bans the reference or goes to sleep.
DownloadFailed(c) ==
  /\ chain[c].pc = "downloading"
  /\ LET ref == chain[c].ref
         currentRetries == IF ref \in DOMAIN refRetryCount THEN refRetryCount[ref] ELSE 0
         newRetryCount == currentRetries + 1
     IN IF newRetryCount >= MAX_RETRIES
        THEN /\ bannedRefs' = bannedRefs \cup {ref}
             /\ refRetryCount' = MapDelete(refRetryCount, ref)
             /\ StartNext(c, chain[c].kind, chain[c].todo, processedRefs, bannedRefs')
        ELSE /\ refRetryCount' = MapSet(refRetryCount, ref, newRetryCount)
             /\ chain' = [chain EXCEPT ![c].pc = "sleeping"]
             /\ UNCHANGED <<bannedRefs, downloads>>
  /\ UNCHANGED <<processedRefs, alwaysFails>>
  /\ RefFrame

\* sleep(delay) elapsed: handleRefError calls processMessageRefWithRetry again.
RetryAfterSleep(c) ==
  /\ chain[c].pc = "sleeping"
  /\ StartNext(c, chain[c].kind,
               <<StateRef(chain[c].ref)>> \o chain[c].todo, processedRefs, bannedRefs)
  /\ UNCHANGED <<processedRefs, refRetryCount, bannedRefs, alwaysFails>>
  /\ RefFrame

NextRefs ==
  \E c \in Chains :
    \/ CallInit(c)
    \/ CallFetchPreviousMessageState(c)
    \/ \E refs \in RefLists : LatestChatMessageFetched(c, refs)
    \/ LatestChatMessageFailed(c)
    \/ DownloadSucceeded(c)
    \/ DownloadFailed(c)
    \/ RetryAfterSleep(c)

InitRefs == RefInit /\ OthersIdle({"ref"})

SpecRefs == InitRefs /\ [][NextRefs]_vars

\* C1: for a reference whose processing fails on every attempt the downloader
\* is invoked exactly MAX_RETRIES times in total: never more, and exactly that
\* often once the reference is banned (after which no call downloads it again).
C1_ExactlyMaxRetriesDownloads ==
  \A r \in alwaysFails :
    /\ downloads[r] <= MAX_RETRIES
    /\ r \in bannedRefs => downloads[r] = MAX_RETRIES


\* C23: under overlapping init() and fetchPreviousMessageState() calls the
\* processed set and the banned set stay disjoint, a reference in either set
\* has no retry count, and a reference never leaves either set.
C23_TerminalLedgerStates ==
  /\ [](/\ processedRefs \cap bannedRefs = {}
        /\ (processedRefs \cup bannedRefs) \cap DOMAIN refRetryCount = {})
  /\ [][processedRefs \subseteq processedRefs' /\ bannedRefs \subseteq bannedRefs']_vars

\* C24: a reference whose payload fails validateMessageState on every download
\* is never retried: no call sleeps to download it again, and no retry count
\* is kept for it.
C24_InvalidPayloadNeverRetried ==
  /\ \A c \in Chains : chain[c].pc = "sleeping" => chain[c].ref \notin alwaysFails
  /\ alwaysFails \cap DOMAIN refRetryCount = {}

\* C14: a reference whose processing fails is not banned at its first failure;
\* it enters bannedRefs only in the step in which its recorded failure count
\* reaches MAX_RETRIES, after at least MAX_RETRIES downloads of it.
C14_BannedOnlyAtMaxRetries ==
  [][\A r \in Refs :
       (r \in bannedRefs' /\ r \notin bannedRefs)
         => /\ r \in DOMAIN refRetryCount
            /\ refRetryCount[r] + 1 = MAX_RETRIES
            /\ downloads[r] >= MAX_RETRIES]_vars

\* A reference that failed once is awaiting its retry, unbanned, and another
\* one was banned after exactly MAX_RETRIES downloads.
C14_Witness ==
  \E r, q \in Refs :
    /\ r \in bannedRefs
    /\ downloads[r] = MAX_RETRIES
    /\ q \notin bannedRefs
    /\ q \in DOMAIN refRetryCount
    /\ refRetryCount[q] = 1

-----------------------------------------------------------------------------
(* The live fetch pipeline: SwarmChat.readAllActiveUserMessage / readMessage  *)
(* (unnamed/part_003:338-384, 420-443) driven through Queue                   *)
(* (src/index.ts:15-77).                                                      *)

Addresses(users) == {users[i].address : i \in DOMAIN users}

\* this.activeUsers[messageSender.address] = messageSender: a present key keeps
\* its place, a new key goes last.
updateActiveUsers(users, messageSender) ==
  IF messageSender.address \in Addresses(users)
  THEN [i \in DOMAIN users |->
          IF users[i].address = messageSender.address THEN messageSender ELSE users[i]]
  ELSE Append(users, messageSender)

\* delete this.activeUsers[address]
removeUser(users, address) == SelectSeq(users, LAMBDA u : u.address # address)

\* isUserIndexRead(userAddress, checkIndex): cachedIndex is NoIndex for undefined
AlwaysUnread_isUserIndexRead(cache, userAddress, checkIndex) ==
  [cachedIndex |-> IF userAddress \in DOMAIN cache THEN cache[userAddress] ELSE NoIndex,
   isIndexRead |-> FALSE]

isUserIndexRead(cache, userAddress, checkIndex) ==
  LET cachedIndex == IF userAddress \in DOMAIN cache THEN cache[userAddress] ELSE NoIndex
  IN [cachedIndex |-> cachedIndex, isIndexRead |-> cachedIndex = checkIndex]

\* A readMessage that reads at max(cachedIndex + 1, announced index)
NextReadIndex_Max(cachedIndex, announced) ==
  IF cachedIndex # NoIndex /\ cachedIndex + 1 > announced THEN cachedIndex + 1 ELSE announced

\* nextIndex = readCacheState.cachedIndex ? readCacheState.cachedIndex + 1 : user.index
\* (undefined and 0 are both falsy)
NextReadIndex(cachedIndex, announced) ==
  IF cachedIndex # NoIndex /\ cachedIndex # 0 THEN cachedIndex + 1 ELSE announced

\* ghost: keep the last two calls of the observed user while they carry the
\* same announced index
Observed == "u1"
Remember(cs, address, c) ==
  IF address # Observed THEN cs
  ELSE IF cs # << >> /\ cs[Len(cs)].ann # c.ann THEN <<c>>
  ELSE IF Len(cs) < 2 THEN Append(cs, c) ELSE <<cs[2], c>>

\* processGsocEvent -> updateActiveUsers: a broadcast announcing (address, index)
ProcessGsocEvent(u, i) ==
  /\ activeUsers' = updateActiveUsers(activeUsers, [address |-> u, index |-> i])
  /\ UNCHANGED <<userIndexCache, tasks, isProcessing, isWaiting, running, calls>>
  /\ ReadFrame

\* removeIdleUsers deletes a user whose timestamp is older than 300 s (the age
\* of an announcement is left to the environment)
RemoveIdleUser(u) ==
  /\ u \in Addresses(activeUsers)
  /\ activeUsers' = removeUser(activeUsers, u)
  /\ UNCHANGED <<userIndexCache, tasks, isProcessing, isWaiting, running, calls>>
  /\ ReadFrame

\* The interval fires readAllActiveUserMessage, which enters
\* messagesQueue.waitForProcessing: a tick that finds a waiter returns at once.
FetchTick ==
  /\ ~isWaiting
  /\ isWaiting' = TRUE
  /\ UNCHANGED <<activeUsers, userIndexCache, tasks, isProcessing, running, calls>>
  /\ ReadFrame

\* A tick that enqueues its batch without waiting for the queue to drain
EnqueueBatch_NoWait ==
  /\ isWaiting
  /\ isWaiting' = FALSE
  /\ tasks' = tasks \o activeUsers
  /\ isProcessing' = (tasks' # << >> \/ isProcessing)
  /\ UNCHANGED <<activeUsers, userIndexCache, running, calls>>
  /\ ReadFrame

\* waitForProcessing saw isProcessing false and returned false: the tick
\* enqueues one readMessage task per active user; enqueue starts processQueue.
EnqueueBatch ==
  /\ isWaiting
  /\ ~isProcessing
  /\ isWaiting' = FALSE
  /\ tasks' = tasks \o activeUsers
  /\ isProcessing' = (tasks' # << >>)
  /\ UNCHANGED <<activeUsers, userIndexCache, running, calls>>
  /\ ReadFrame

\* processQueue shifts a task and runs readMessage up to its await: the cache
\* check, then fetchUserFeedDataByIndex at nextIndex.
ReadMessageStart ==
  /\ isProcessing
  /\ running = NoRead
  /\ tasks # << >>
  /\ LET user == Head(tasks)
         readCacheState == isUserIndexRead(userIndexCache, user.address, user.index)
     IN /\ tasks' = Tail(tasks)
        /\ IF readCacheState.isIndexRead
           THEN /\ calls' = Remember(calls, user.address, [ann |-> user.index,
                                            cache |-> readCacheState.cachedIndex,
                                            emit |-> NoIndex, failed |-> FALSE])
                /\ UNCHANGED running
           ELSE /\ running' = [address |-> user.address, index |-> user.index,
                               nextIndex |-> NextReadIndex(readCacheState.cachedIndex, user.index),
                               cachedIndex |-> readCacheState.cachedIndex]
                /\ UNCHANGED calls
  /\ UNCHANGED <<activeUsers, userIndexCache, isProcessing, isWaiting>>
  /\ ReadFrame

\* fetchUserFeedDataByIndex resolved: setUserIndexCache, emit MESSAGE_RECEIVED
ReadMessageFetched ==
  /\ running # NoRead
  /\ running.nextIndex <= MaxIndex
  /\ userIndexCache' = MapSet(userIndexCache, running.address, running.nextIndex)
  /\ calls' = Remember(calls, running.address, [ann |-> running.index, cache |-> running.cachedIndex,
                              emit |-> running.nextIndex, failed |-> FALSE])
  /\ running' = NoRead
  /\ UNCHANGED <<activeUsers, tasks, isProcessing, isWaiting>>
  /\ ReadFrame

\* A readMessage that lets the error out, in a queue that stops at an error
ReadMessageFailed_AbortsQueue ==
  /\ running # NoRead
  /\ calls' = Remember(calls, running.address, [ann |-> running.index, cache |-> running.cachedIndex,
                              emit |-> NoIndex, failed |-> TRUE])
  /\ running' = NoRead
  /\ tasks' = << >>
  /\ isProcessing' = FALSE
  /\ UNCHANGED <<activeUsers, userIndexCache, isWaiting>>
  /\ ReadFrame

\* fetchUserFeedDataByIndex rejected (not found, timeout): caught and logged
ReadMessageFailed ==
  /\ running # NoRead
  /\ calls' = Remember(calls, running.address, [ann |-> running.index, cache |-> running.cachedIndex,
                              emit |-> NoIndex, failed |-> TRUE])
  /\ running' = NoRead
  /\ UNCHANGED <<activeUsers, userIndexCache, tasks, isProcessing, isWaiting>>
  /\ ReadFrame

\* processQueue found no task left
QueueDrained ==
  /\ isProcessing
  /\ running = NoRead
  /\ tasks = << >>
  /\ isProcessing' = FALSE
  /\ UNCHANGED <<activeUsers, userIndexCache, tasks, isWaiting, running, calls>>
  /\ ReadFrame

Init == UserInit /\ ReadInit /\ OthersIdle({"user", "read"})

Next ==
  \/ \E u \in Users : \E i \in AnnouncedIndexes(u) : ProcessGsocEvent(u, i)
  \/ \E u \in Users : RemoveIdleUser(u)
  \/ FetchTick
  \/ EnqueueBatch
  \/ ReadMessageStart
  \/ ReadMessageFetched
  \/ ReadMessageFailed
  \/ QueueDrained

Spec == Init /\ [][Next]_vars

\* C25 (as stated): a readMessage call that reads (the announced index differs
\* from the cached one) reads the feed entry at max(cachedIndex + 1, announced
\* index), at the announced index when nothing is cached.
C25_ReadsAtMax ==
  running # NoRead =>
    running.nextIndex =
      IF running.cachedIndex # NoIndex /\ running.cachedIndex + 1 > running.index
      THEN running.cachedIndex + 1 ELSE running.index

\* C25 (amended): a readMessage call reads only when the announced index
\* differs from the cached one; it reads at cachedIndex + 1 when the cached
\* index is 1 or more, whatever index was announced, and at the announced index
\* when nothing is cached or the cached index is 0; the cache changes only by
\* a successful read, which sets the user's entry to exactly the index read.
C25_ReadsAfterCache ==
  /\ [](running # NoRead =>
          /\ running.index # running.cachedIndex
          /\ running.cachedIndex >= 1 => running.nextIndex = running.cachedIndex + 1
          /\ running.cachedIndex \in {NoIndex, 0} => running.nextIndex = running.index)
  /\ [][userIndexCache' # userIndexCache =>
          /\ running # NoRead /\ running' = NoRead
          /\ userIndexCache' = MapSet(userIndexCache, running.address, running.nextIndex)
          /\ userIndexCache'[running.address] = running.nextIndex]_vars

\* C25 witness: with index 1 cached and an index two or more ahead announced,
\* a read at cachedIndex + 1 is under way; the cache of another user was set
\* by a read at its announced index.
C25_Witness ==
  /\ running # NoRead
  /\ running.cachedIndex = 1
  /\ running.index >= running.cachedIndex + 2
  /\ running.nextIndex = 2
  /\ \E u \in DOMAIN userIndexCache : u # running.address /\ userIndexCache[u] = 0

\* C26: for each sender the reads are in order: once an index of the sender
\* has been read (the cache holds it), the next index read for that sender is
\* exactly one greater.
C26_ReadsEveryIndexInOrder ==
  [][\A u \in DOMAIN userIndexCache :
       userIndexCache'[u] # userIndexCache[u] => userIndexCache'[u] = userIndexCache[u] + 1]_vars

\* The last two completed readMessage calls of the observed user carried the
\* same announced feedIndex
SameAnnouncementTwice == Len(calls) = 2 /\ calls[1].ann = calls[2].ann

Emits == Cardinality({k \in 1..2 : calls[k].emit # NoIndex})

\* C2 (as stated): two readMessage calls for a user under the same announced
\* feedIndex emit exactly one MESSAGE_RECEIVED, for every state of the cache
\* before the first call (no read failing, the announced index not yet read).
C2_ExactlyOneEmission ==
  (/\ SameAnnouncementTwice
   /\ \A k \in 1..2 : ~calls[k].failed
   /\ calls[1].cache # calls[1].ann) => Emits = 1

\* C2 (amended): two readMessage calls for a user under the same announced
\* feedIndex never emit the same feed index twice; once the announced index
\* itself was emitted the next call emits nothing; and they emit exactly one
\* message, the announced one, when the cache before the first call was
\* unset, 0 or the announced index minus one (and not the announced index) and
\* the first read succeeded.
C2_NoRepeatedEmission ==
  SameAnnouncementTwice =>
    LET c1 == calls[1]
        c2 == calls[2]
    IN /\ c1.emit # NoIndex => c1.emit # c2.emit
       /\ c1.emit = c1.ann => c2.emit = NoIndex
       /\ (c1.cache \in {NoIndex, 0, c1.ann - 1} /\ c1.cache # c1.ann /\ c1.emit # NoIndex)
            => (c1.emit = c1.ann /\ c2.emit = NoIndex /\ Emits = 1)

\* C2 witness: a first call with an empty cache emitted the announced index
\* and a second call under the same announcement emitted nothing.
C2_Witness ==
  /\ SameAnnouncementTwice
  /\ calls[1].cache = NoIndex
  /\ calls[1].emit = calls[1].ann
  /\ calls[2].emit = NoIndex
  /\ calls[2].cache = calls[1].ann

-----------------------------------------------------------------------------
(* Sending: SwarmChat.sendMessage, waitForMessageBroadcast,                   *)
(* broadcastUserMessage (unnamed/part_003:115-147, 276-336) and               *)
(* waitForBroadcast (src/utils/waitForBroadcast.ts:65-95).                    *)

\* condition: Object.values(this.activeUsers).some((user) => user.index === index)
BroadcastCondition(users, index) == \E k \in DOMAIN users : users[k].index = index

\* The catch block of sendMessage: emit MESSAGE_REQUEST_ERROR, handleError;
\* the promise of sendMessage resolves.
SendMessageCatch_Rethrow(rec, failure) ==
  [rec EXCEPT !.pc = "done", !.outcome = "rejected", !.failure = failure]

SendMessageCatch(rec, failure) ==
  [rec EXCEPT !.pc = "done", !.outcome = "resolved", !.failure = failure,
              !.events = Append(@, "MESSAGE_REQUEST_ERROR")]

\* checkCondition of waitForBroadcast, run by sendMessage's call chain: resolve
\* when the condition holds, reject with 'Broadcast timeout' when the counter
\* reached maxRetries, else count and invoke broadcast(), whose announcement
\* carries getOwnIndex() as of now.
checkCondition(rec, users, own) ==
  IF BroadcastCondition(users, rec.nextIndex)
  THEN [rec EXCEPT !.pc = "done", !.outcome = "resolved"]
  ELSE IF rec.counter >= maxRetries
       THEN SendMessageCatch(rec, "timeout")
       ELSE [rec EXCEPT !.pc = "broadcasting", !.counter = @ + 1, !.announce = own]

\* const nextIndex = this.ownIndex === -1 ? 0 : this.ownIndex + 1
NextOwnIndex(own) == IF own = -1 THEN 0 ELSE own + 1

\* sendMessage up to its first await: MESSAGE_REQUEST_INITIATED is emitted and
\* writeUserFeedDataByIndex is invoked at nextIndex.
SendMessage(s) ==
  /\ sender[s].pc \in {"idle", "done"}
  /\ LET nextIndex == NextOwnIndex(ownIndex) IN
     /\ nextIndex <= MaxSendIndex
     /\ sender' = [sender EXCEPT ![s] =
                     [IdleSender EXCEPT !.pc = "writing", !.nextIndex = nextIndex,
                                        !.events = <<"MESSAGE_REQUEST_INITIATED">>,
                                        !.outcome = "pending"]]
     /\ liveWrites' = [liveWrites EXCEPT ![nextIndex] = @ + 1]
  /\ UNCHANGED <<ownIndex, broadcasts, activeUsers>>
  /\ SendFrame

\* The feed write resolved: ownIndex = nextIndex, MESSAGE_REQUEST_UPLOADED is
\* emitted and waitForMessageBroadcast runs its first checkCondition.
FeedWriteResolved(s) ==
  /\ sender[s].pc = "writing"
  /\ ownIndex' = sender[s].nextIndex
  /\ sender' = [sender EXCEPT ![s] =
                  checkCondition([@ EXCEPT !.written = TRUE,
                                           !.events = Append(@, "MESSAGE_REQUEST_UPLOADED")],
                                 activeUsers, ownIndex')]
  /\ UNCHANGED <<broadcasts, liveWrites, activeUsers>>
  /\ SendFrame

\* The feed write rejected: the catch block runs, ownIndex is not assigned.
FeedWriteRejected(s) ==
  /\ sender[s].pc = "writing"
  /\ sender' = [sender EXCEPT ![s] = SendMessageCatch(@, "write")]
  /\ liveWrites' = [liveWrites EXCEPT ![sender[s].nextIndex] = @ - 1]
  /\ UNCHANGED <<ownIndex, broadcasts, activeUsers>>
  /\ SendFrame

\* broadcastUserMessage returned (it catches its own errors): the GSOC node
\* took the announcement or not; setTimeout(checkCondition, intervalMs).
BroadcastUserMessageReturned(s, sent) ==
  /\ sender[s].pc = "broadcasting"
  /\ sender' = [sender EXCEPT ![s].pc = "waiting"]
  /\ broadcasts' = IF sent THEN broadcasts \cup {sender[s].announce} ELSE broadcasts
  /\ UNCHANGED <<ownIndex, liveWrites, activeUsers>>
  /\ SendFrame

\* The timeout fires checkCondition again.
CheckConditionTimer(s) ==
  /\ sender[s].pc = "waiting"
  /\ sender' = [sender EXCEPT ![s] = checkCondition(@, activeUsers, ownIndex)]
  /\ UNCHANGED <<ownIndex, broadcasts, liveWrites, activeUsers>>
  /\ SendFrame

\* The GSOC subscription delivers an own announcement (at least once, in any
\* order): processGsocEvent -> updateActiveUsers.
OwnAnnouncementDelivered(i) ==
  /\ i \in broadcasts
  /\ activeUsers' = updateActiveUsers(activeUsers, [address |-> OWN, index |-> i])
  /\ UNCHANGED <<ownIndex, sender, broadcasts, liveWrites>>
  /\ SendFrame

InitSend == SendInit /\ UserInit /\ OthersIdle({"send", "user"})

NextSend ==
  \/ \E s \in Senders :
       \/ SendMessage(s)
       \/ FeedWriteResolved(s)
       \/ FeedWriteRejected(s)
       \/ \E sent \in BOOLEAN : BroadcastUserMessageReturned(s, sent)
       \/ CheckConditionTimer(s)
  \/ \E i \in 0..MaxSendIndex : OwnAnnouncementDelivered(i)
  \/ \E u \in Users \ {OWN} : \E i \in AnnouncedIndexes(u) : ProcessGsocEvent(u, i)
  \/ \E u \in Users : RemoveIdleUser(u)

SpecSend == InitSend /\ [][NextSend]_vars

Last(seq) == seq[Len(seq)]

\* C3: the promise of sendMessage never rejects; MESSAGE_REQUEST_INITIATED is
\* the first event of a call; MESSAGE_REQUEST_UPLOADED is emitted only after
\* the feed write at the new index succeeded; a failed feed write or a
\* broadcast timeout ends the call with MESSAGE_REQUEST_ERROR, and a call that
\* met neither emits no error.
C3_SendMessageNeverRejects ==
  \A s \in Senders :
    LET rec == sender[s] IN
    /\ rec.outcome # "rejected"
    /\ rec.pc # "idle" => Head(rec.events) = "MESSAGE_REQUEST_INITIATED"
    /\ (\E k \in DOMAIN rec.events : rec.events[k] = "MESSAGE_REQUEST_UPLOADED")
         => (rec.written /\ Head(Tail(rec.events)) = "MESSAGE_REQUEST_UPLOADED")
    /\ rec.pc = "done" =>
         /\ rec.outcome = "resolved"
         /\ rec.failure # "none" <=> Last(rec.events) = "MESSAGE_REQUEST_ERROR"
         /\ rec.failure = "write" => ~rec.written

\* C3 witness: one call ended by a failed feed write and another by a
\* broadcast timeout after a successful upload, both resolved with an error event.
C3_Witness ==
  \E s, t \in Senders :
    /\ sender[s].pc = "done" /\ sender[s].failure = "write"
    /\ sender[t].pc = "done" /\ sender[t].failure = "timeout" /\ sender[t].written
    /\ Last(sender[t].events) = "MESSAGE_REQUEST_ERROR"

\* C4: no two feed writes target the same feedIndex, whatever the
\* interleaving of sendMessage calls: at every index at most one write is
\* in flight or has succeeded.
C4_OneWritePerIndex == \A i \in 0..MaxSendIndex : liveWrites[i] <= 1

\* C22: a sendMessage call that completes without MESSAGE_REQUEST_ERROR has
\* broadcast its announcement at least once and has seen, when its wait
\* resolved, an active-user entry of the own address with the new feedIndex.
C22_ResolvedMeansOwnEntrySeen ==
  [][\A s \in Senders :
       (sender[s].pc # "done" /\ sender'[s].pc = "done" /\ sender'[s].failure = "none")
         => /\ sender[s].counter >= 1
            /\ \E k \in DOMAIN activeUsers :
                 /\ activeUsers[k].address = OWN
                 /\ activeUsers[k].index = sender[s].nextIndex]_vars

\* C20: waitForBroadcast invokes broadcast() before it tests the condition, so
\* a sendMessage call whose wait resolved has invoked broadcast() at least once.
C20_BroadcastBeforeResolve ==
  \A s \in Senders :
    (sender[s].pc = "done" /\ sender[s].written /\ sender[s].failure = "none")
      => sender[s].counter >= 1

-----------------------------------------------------------------------------
(* History merge: SwarmHistory.mergeChatHistory / mergeUserHistory            *)
(* (unnamed/part_020:537-571) with mergeUnique of utils/common.               *)

\* The k-th smallest element of a set of positions
NthPosition(P, n) == CHOOSE k \in P : Cardinality({j \in P : j <= k}) = n

\* The two getKey functions mergeUserHistory passes: `${event.type}-${event.timestamp}`
\* for events, entry.index for message entries
GetKey(getKey, item) ==
  IF getKey = "index" THEN item.index ELSE <<item.type, item.timestamp>>

\* mergeUnique(a, b, getKey, compare): the concatenation of a and b with one
\* item per key, sorted with compare (ascending timestamp).  The item kept
\* for a key present more than once is the first or the last of the
\* concatenation; it stands where the key first appears.
mergeUnique(a, b, getKey, first) ==
  LET all == a \o b
      Key(item) == GetKey(getKey, item)
      firsts == {k \in DOMAIN all : \A j \in 1..(k - 1) : Key(all[j]) # Key(all[k])}
      LastOf(k) == CHOOSE j \in DOMAIN all :
                     /\ Key(all[j]) = Key(all[k])
                     /\ \A i \in DOMAIN all : Key(all[i]) = Key(all[k]) => i <= j
      unique == [n \in 1..Cardinality(firsts) |->
                   LET k == NthPosition(firsts, n)
                   IN IF first THEN all[k] ELSE all[LastOf(k)]]
  IN SortByTimestamp(unique)

UserOf(users, address) == CHOOSE k \in DOMAIN users : users[k].address = address

\* The customizer of mergeWith for an address both sides hold
MergeUser(remoteUser, localUser, first) ==
  [address |-> remoteUser.address,
   events |-> mergeUnique(remoteUser.events, localUser.events, "type-timestamp", first),
   messageEntries |-> mergeUnique(remoteUser.messageEntries, localUser.messageEntries,
                                  "index", first)]

\* A mergeUserHistory whose customizer concatenates the two lists
mergeUserHistory_Concatenate(remoteUsers, localUsers, first) ==
  [k \in DOMAIN remoteUsers |->
     IF remoteUsers[k].address \in Addresses(localUsers)
     THEN [remoteUsers[k] EXCEPT
             !.messageEntries =
               @ \o localUsers[UserOf(localUsers, remoteUsers[k].address)].messageEntries]
     ELSE remoteUsers[k]]
    \o SelectSeq(localUsers, LAMBDA u : u.address \notin Addresses(remoteUsers))

\* A mergeUserHistory that keeps the remote users only
mergeUserHistory_RemoteOnly(remoteUsers, localUsers, first) ==
  [k \in DOMAIN remoteUsers |->
     IF remoteUsers[k].address \in Addresses(localUsers)
     THEN MergeUser(remoteUsers[k],
                    localUsers[UserOf(localUsers, remoteUsers[k].address)], first)
     ELSE remoteUsers[k]]

\* mergeWith(customizer, remoteUsers, localUsers) of lodash/fp: the keys of
\* remoteUsers in their order, merged with the local user where both sides
\* hold the address, then the addresses only localUsers holds.
mergeUserHistory(remoteUsers, localUsers, first) ==
  [k \in DOMAIN remoteUsers |->
     IF remoteUsers[k].address \in Addresses(localUsers)
     THEN MergeUser(remoteUsers[k],
                    localUsers[UserOf(localUsers, remoteUsers[k].address)], first)
     ELSE remoteUsers[k]]
    \o SelectSeq(localUsers, LAMBDA u : u.address \notin Addresses(remoteUsers))

mergeChatHistory(remote, local, first) == mergeUserHistory(remote, local, first)

\* merge(A, B), then merge(B, A), then merge(A, merge(A, B))
MergeChatHistory ==
  /\ Len(mergeResult) = 0
  /\ mergeResult' = <<mergeChatHistory(remoteHistory, localHistory, keepsFirst)>>
  /\ UNCHANGED <<remoteHistory, localHistory, keepsFirst>>
  /\ MergeFrame

MergeChatHistorySwapped ==
  /\ Len(mergeResult) = 1
  /\ mergeResult' = Append(mergeResult,
                           mergeChatHistory(localHistory, remoteHistory, keepsFirst))
  /\ UNCHANGED <<remoteHistory, localHistory, keepsFirst>>
  /\ MergeFrame

MergeChatHistoryAgain ==
  /\ Len(mergeResult) = 2
  /\ mergeResult' = Append(mergeResult,
                           mergeChatHistory(remoteHistory, mergeResult[1], keepsFirst))
  /\ UNCHANGED <<remoteHistory, localHistory, keepsFirst>>
  /\ MergeFrame

InitMerge == MergeInit /\ OthersIdle({"merge"})

NextMerge == MergeChatHistory \/ MergeChatHistorySwapped \/ MergeChatHistoryAgain

SpecMerge == InitMerge /\ [][NextMerge]_vars

\* The entry of a user's list with the given index
EntryAt(users, address, index) ==
  LET l == users[UserOf(users, address)].messageEntries
  IN l[CHOOSE k \in DOMAIN l : l[k].index = index]

IndexesOf(users, address) ==
  IF address \in Addresses(users)
  THEN {e.index : e \in Range(users[UserOf(users, address)].messageEntries)}
  ELSE {}

\* The feed indexes both arguments hold for an address with different timestamps
Contested ==
  {p \in Users \X EntryIndexes :
     /\ p[2] \in IndexesOf(remoteHistory, p[1]) \cap IndexesOf(localHistory, p[1])
     /\ EntryAt(remoteHistory, p[1], p[2]) # EntryAt(localHistory, p[1], p[2])}

\* C5: history merge is idempotent: merge(A, merge(A, B)) equals merge(A, B).
C5_MergeIdempotent ==
  Len(mergeResult) = 3 => mergeResult[3] = mergeResult[1]

\* C5 witness: the re-applied snapshot shares an index with the local
\* history under another timestamp and the merge differs from both arguments.
C5_Witness ==
  /\ Len(mergeResult) = 3
  /\ Contested # {}
  /\ mergeResult[1] # remoteHistory
  /\ mergeResult[1] # localHistory
  /\ Len(mergeResult[1]) = 2

-----------------------------------------------------------------------------
(* History trimming: SwarmHistory.trimHistory (unnamed/part_020:581-617)      *)

RECURSIVE Digits(_)
Digits(n) == IF n < 10 THEN 1 ELSE 1 + Digits(n \div 10)

RECURSIVE SumLen(_)
SumLen(lens) == IF lens = << >> THEN 0 ELSE Head(lens) + SumLen(Tail(lens))

\* The length of the items of a JSON array or object, joined with commas
Joined(lens) == SumLen(lens) + (IF Len(lens) = 0 THEN 0 ELSE Len(lens) - 1)

\* {"index":0,"timestamp":1}
EntryJsonSize(entry) == 9 + Digits(entry.index) + 13 + Digits(entry.timestamp) + 1

\* "u1":{"events":[],"messageEntries":[...]} ; the addresses of the model
\* have two characters and the events are empty
UserJsonSize(user) ==
  5 + 13 + 18
    + Joined([k \in DOMAIN user.messageEntries |-> EntryJsonSize(user.messageEntries[k])])
    + 2

\* new Blob([JSON.stringify(this.history)]).size: {"allTimeUsers":{...}}
JsonSize(users) == 17 + Joined([k \in DOMAIN users |-> UserJsonSize(users[k])]) + 2

\* allMessages: for each user in key order, its entries in list order
RECURSIVE Flatten(_)
Flatten(users) ==
  IF users = << >> THEN << >>
  ELSE [k \in DOMAIN Head(users).messageEntries |->
          [address |-> Head(users).address, entry |-> Head(users).messageEntries[k]]]
       \o Flatten(Tail(users))

\* allMessages.sort((a, b) => a.entry.timestamp - b.entry.timestamp), stable
SortMessages(all) ==
  LET Rank(k) == Cardinality({j \in DOMAIN all :
                    \/ all[j].entry.timestamp < all[k].entry.timestamp
                    \/ all[j].entry.timestamp = all[k].entry.timestamp /\ j < k})
  IN [n \in DOMAIN all |-> all[CHOOSE k \in DOMAIN all : Rank(k) = n - 1]]

\* The loop over messagesToKeep: a user is created at its first kept entry
RECURSIVE Rebuild(_, _)
Rebuild(users, keep) ==
  IF keep = << >> THEN users
  ELSE LET m == Head(keep)
           next == IF m.address \in Addresses(users)
                   THEN [users EXCEPT ![UserOf(users, m.address)].messageEntries =
                                        Append(@, m.entry)]
                   ELSE Append(users, [address |-> m.address, events |-> << >>,
                                       messageEntries |-> <<m.entry>>])
       IN Rebuild(next, Tail(keep))

\* allMessages.slice(trimBatch)
Slice(all, start) == SubSeq(all, start + 1, Len(all))

\* A trimHistory that keeps the oldest entries: allMessages.slice(0, length - trimBatch)
trimHistory_KeepOldest(users, maxBytes, batch) ==
  IF JsonSize(users) <= maxBytes THEN users
  ELSE LET all == SortMessages(Flatten(users))
       IN Rebuild(<< >>, SubSeq(all, 1, IF Len(all) > batch THEN Len(all) - batch ELSE 0))

\* sizeInMB <= maxSizeMB is compared in bytes: maxBytes = maxSizeMB * 1024 * 1024
trimHistory(users, maxBytes, batch) ==
  IF JsonSize(users) <= maxBytes THEN users
  ELSE Rebuild(<< >>, Slice(SortMessages(Flatten(users)), batch))

TrimHistory ==
  /\ trimInput = NotTrimmed
  /\ trimInput' = <<history>>
  /\ history' = trimHistory(history, maxSizeBytes, trimBatch)
  /\ UNCHANGED <<maxSizeBytes, trimBatch>>
  /\ TrimFrame

InitTrim == TrimInit /\ OthersIdle({"trim"})

NextTrim == TrimHistory

SpecTrim == InitTrim /\ [][NextTrim]_vars

AllEntries(users) == Range(Flatten(users))

\* C8: trimHistory applied to a history over the size budget leaves exactly
\* max(0, total - batch) message entries, all of them entries of the input
\* and none older than an entry it dropped, and a result no larger than the
\* input; applied to a history within the budget it changes nothing.
C8_TrimLeavesNewest ==
  trimInput # NotTrimmed =>
    LET input == trimInput[1]
        before == AllEntries(input)
        after == AllEntries(history)
        total == Len(Flatten(input))
    IN IF JsonSize(input) > maxSizeBytes
       THEN /\ Len(Flatten(history)) = (IF total > trimBatch THEN total - trimBatch ELSE 0)
            /\ Cardinality(after) = Len(Flatten(history))
            /\ after \subseteq before
            /\ \A k \in after : \A d \in before \ after :
                 k.entry.timestamp >= d.entry.timestamp
            /\ JsonSize(history) <= JsonSize(input)
       ELSE history = input

\* C8 witness: a history of two users over the budget was trimmed by a batch
\* smaller than its entry count, dropping an older entry and keeping a newer.
C8_Witness ==
  /\ trimInput # NotTrimmed
  /\ JsonSize(trimInput[1]) > maxSizeBytes
  /\ Len(trimInput[1]) = 2
  /\ trimBatch > 0
  /\ history # << >>
  /\ \E k \in AllEntries(history) : \E d \in AllEntries(trimInput[1]) \ AllEntries(history) :
       k.entry.timestamp > d.entry.timestamp

\* C8 witness of the other branch: a history within the budget was left as it was.
C8_WithinBudget ==
  /\ trimInput # NotTrimmed
  /\ trimInput[1] # << >>
  /\ JsonSize(trimInput[1]) <= maxSizeBytes
  /\ maxSizeBytes < 1000

-----------------------------------------------------------------------------
(* Updater election: SwarmHistory.selectBestEntryForUpdate                    *)
(* (unnamed/part_020:679-693)                                                 *)

\* A reducer that ignores the timestamp of entries of the same id
BetterEntry_IdOnly(bestEntry, currentEntry) ==
  IF bestEntry = NoEntry THEN currentEntry
  ELSE IF currentEntry.id > bestEntry.id THEN currentEntry
  ELSE bestEntry

\* The reducer of selectBestEntryForUpdate
BetterEntry(bestEntry, currentEntry) ==
  IF bestEntry = NoEntry THEN currentEntry
  ELSE IF currentEntry.id > bestEntry.id THEN currentEntry
  ELSE IF currentEntry.id = bestEntry.id /\ currentEntry.timestamp > bestEntry.timestamp
       THEN currentEntry
  ELSE bestEntry

RECURSIVE Reduce(_, _)
Reduce(bestEntry, entries) ==
  IF entries = << >> THEN bestEntry
  ELSE Reduce(BetterEntry(bestEntry, Head(entries)), Tail(entries))

\* entryBuffer.filter((entry) => entry.updater === this.ownAddress).reduce(..., null)
selectBestEntryForUpdate(entryBuffer) ==
  Reduce(NoEntry, SelectSeq(entryBuffer, LAMBDA entry : entry.updater = ownAddress))

SelectBestEntryForUpdate ==
  /\ Len(selections) < MaxCalls
  /\ selections' = Append(selections, selectBestEntryForUpdate(updaterEntryBuffer))
  /\ UNCHANGED updaterEntryBuffer
  /\ SelectFrame

InitSelect == SelectInit /\ OthersIdle({"select"})

NextSelect == SelectBestEntryForUpdate

SpecSelect == InitSelect /\ [][NextSelect]_vars

OwnEntries == {e \in Range(updaterEntryBuffer) : e.updater = ownAddress}

\* C7: selectBestEntryForUpdate returns null when no buffered entry names the
\* local peer as updater, otherwise an entry naming the local peer whose
\* (id, timestamp) pair is lexicographically greatest; repeated calls on the
\* same buffer return the same entry.
C7_SelectsGreatest ==
  \A n \in DOMAIN selections :
    /\ selections[n] = selections[1]
    /\ IF OwnEntries = {} THEN selections[n] = NoEntry
       ELSE /\ selections[n] \in OwnEntries
            /\ \A e \in OwnEntries :
                 \/ e.id < selections[n].id
                 \/ e.id = selections[n].id /\ e.timestamp <= selections[n].timestamp

\* C7 witness: two calls on a buffer with two own entries of the same id and
\* different timestamps, the older one last.
C7_Witness ==
  /\ Len(selections) = 2
  /\ Len(updaterEntryBuffer) = 2
  /\ updaterEntryBuffer[1].updater = ownAddress
  /\ updaterEntryBuffer[2].updater = ownAddress
  /\ updaterEntryBuffer[1].id = updaterEntryBuffer[2].id
  /\ updaterEntryBuffer[1].timestamp > updaterEntryBuffer[2].timestamp
  /\ selections[2] = updaterEntryBuffer[1]

-----------------------------------------------------------------------------
(* Interval timers: SwarmChat.start / stop and the start.. / stop..           *)
(* functions of the three intervals (unnamed/part_003:84-98, 390-418;         *)
(* unnamed/part_020:311-324).                                                 *)

\* The last two calls, the newest last
LastTwo(cs, c) == IF Len(cs) < 2 THEN Append(cs, c) ELSE <<cs[2], c>>

\* A start function without the guard on the timer field
StartInterval_Unguarded(timer, handle) == [timer |-> handle, created |-> TRUE]

\* if (this.timer) { warn; return }  this.timer = setInterval(callback, time)
StartInterval(timer, handle) ==
  IF timer # NoTimer THEN [timer |-> timer, created |-> FALSE]
  ELSE [timer |-> handle, created |-> TRUE]

startMessagesFetchProcess(timer, handle) == StartInterval(timer, handle)
startIdleUserCleanup(timer, handle) == StartInterval(timer, handle)
startHistoryUpdateProcess(timer, handle) == StartInterval(timer, handle)

\* setInterval: the runtime holds the interval under the handle it returned
SetInterval(live, callback, started) ==
  IF started.created THEN live \cup {[callback |-> callback, handle |-> started.timer]}
  ELSE live

\* if (this.timer) { clearInterval(this.timer); this.timer = null }
ClearInterval(live, timer) ==
  IF timer # NoTimer THEN {i \in live : i.handle # timer} ELSE live

Handles(started) == IF started.created THEN 1 ELSE 0

\* SwarmChat.start: the three start functions in the order of the code
\* (init and the GSOC subscription set no interval).
Start ==
  /\ LET f == startMessagesFetchProcess(fetchMessageTimer, nextHandle + 1)
         n1 == nextHandle + Handles(f)
         c == startIdleUserCleanup(idleUserCleanupInterval, n1 + 1)
         n2 == n1 + Handles(c)
         h == startHistoryUpdateProcess(historyUpdateTimer, n2 + 1)
     IN /\ fetchMessageTimer' = f.timer
        /\ idleUserCleanupInterval' = c.timer
        /\ historyUpdateTimer' = h.timer
        /\ n2 + Handles(h) <= MaxHandles
        /\ nextHandle' = n2 + Handles(h)
        /\ liveIntervals' =
             SetInterval(SetInterval(SetInterval(liveIntervals,
                                                 "readAllActiveUserMessage", f),
                                     "removeIdleUsers", c),
                         "createHistoryEntry", h)
  /\ sessionCall' = LastTwo(sessionCall, "start")
  /\ UNCHANGED fired
  /\ TimerFrame

\* SwarmChat.stop: the three stop functions
Stop ==
  /\ liveIntervals' =
       ClearInterval(ClearInterval(ClearInterval(liveIntervals, fetchMessageTimer),
                                   idleUserCleanupInterval),
                     historyUpdateTimer)
  /\ fetchMessageTimer' = NoTimer
  /\ idleUserCleanupInterval' = NoTimer
  /\ historyUpdateTimer' = NoTimer
  /\ sessionCall' = LastTwo(sessionCall, "stop")
  /\ UNCHANGED <<nextHandle, fired>>
  /\ TimerFrame

\* SwarmHistory.startHistoryUpdateProcess, public, called on its own
StartHistoryUpdateProcess ==
  /\ LET h == startHistoryUpdateProcess(historyUpdateTimer, nextHandle + 1)
     IN /\ nextHandle + Handles(h) <= MaxHandles
        /\ historyUpdateTimer' = h.timer
        /\ nextHandle' = nextHandle + Handles(h)
        /\ liveIntervals' = SetInterval(liveIntervals, "createHistoryEntry", h)
  /\ sessionCall' = LastTwo(sessionCall, "startHistoryUpdateProcess")
  /\ UNCHANGED <<fetchMessageTimer, idleUserCleanupInterval, fired>>
  /\ TimerFrame

\* SwarmHistory.stopHistoryUpdateProcess, public, called on its own
StopHistoryUpdateProcess ==
  /\ liveIntervals' = ClearInterval(liveIntervals, historyUpdateTimer)
  /\ historyUpdateTimer' = NoTimer
  /\ sessionCall' = LastTwo(sessionCall, "stopHistoryUpdateProcess")
  /\ UNCHANGED <<fetchMessageTimer, idleUserCleanupInterval, nextHandle, fired>>
  /\ TimerFrame

\* The runtime invokes the callback of an interval that is set
IntervalFires(i) ==
  /\ i \in liveIntervals
  /\ fired[i.callback] < MaxFired
  /\ fired' = [fired EXCEPT ![i.callback] = @ + 1]
  /\ UNCHANGED <<fetchMessageTimer, idleUserCleanupInterval, historyUpdateTimer,
                 nextHandle, liveIntervals, sessionCall>>
  /\ TimerFrame

InitTimers == TimerInit /\ OthersIdle({"timer"})

NextTimers ==
  \/ Start
  \/ Stop
  \/ StartHistoryUpdateProcess
  \/ StopHistoryUpdateProcess
  \/ \E i \in [callback : Callbacks, handle : 1..MaxHandles] : IntervalFires(i)

SpecTimers == InitTimers /\ [][NextTimers]_vars

LiveOf(callback) == {i \in liveIntervals : i.callback = callback}

\* C9: for any sequence of start() and stop() calls at most one message-fetch
\* interval, one idle-user-cleanup interval and one history-update interval is
\* active, the one the timer field holds; after stop() none is active.
C9_AtMostOneIntervalEach ==
  /\ \A c \in Callbacks : Cardinality(LiveOf(c)) <= 1
  /\ LiveOf("readAllActiveUserMessage") =
       (IF fetchMessageTimer = NoTimer THEN {}
        ELSE {[callback |-> "readAllActiveUserMessage", handle |-> fetchMessageTimer]})
  /\ LiveOf("removeIdleUsers") =
       (IF idleUserCleanupInterval = NoTimer THEN {}
        ELSE {[callback |-> "removeIdleUsers", handle |-> idleUserCleanupInterval]})
  /\ LiveOf("createHistoryEntry") =
       (IF historyUpdateTimer = NoTimer THEN {}
        ELSE {[callback |-> "createHistoryEntry", handle |-> historyUpdateTimer]})
  /\ (sessionCall # << >> /\ sessionCall[Len(sessionCall)] = "stop") => liveIntervals = {}

\* C9 witness: start() was called twice in a row, the second call on a
\* session whose three intervals ran since a start() that followed a stop().
C9_Witness ==
  /\ sessionCall = <<"start", "start">>
  /\ fetchMessageTimer > 3
  /\ nextHandle = fetchMessageTimer + 2
  /\ Cardinality(liveIntervals) = 3
  /\ fired["readAllActiveUserMessage"] = MaxFired

-----------------------------------------------------------------------------
(* The self-rescheduling poll loop: SwarmChat.start / stop,                   *)
(* startMessagesFetchProcess, stopMessagesFetchProcess and                    *)
(* fetchLatestMessage (src/lib/core.ts:56-65, 157-183, 211-232).              *)

\* start(): init() begins; startMessagesFetchProcess returns when the flag
\* says a loop is running, else sets the flags and calls poll(), which
\* finds stopFetch false and invokes fetchLatestMessage.
PollStart ==
  /\ initsPending < MaxPendingInits
  /\ initsPending' = initsPending + 1
  /\ lastCall' = "start"
  /\ IF fetchProcessRunning
     THEN UNCHANGED <<fetchProcessRunning, stopFetch, pollPc, fetchCount>>
     ELSE /\ fetchCount < MaxFetches
          /\ fetchProcessRunning' = TRUE
          /\ stopFetch' = FALSE
          /\ pollPc' = "fetching"
          /\ fetchCount' = fetchCount + 1
  /\ UNCHANGED gsocIndex
  /\ PollFrame

\* stop(): stopMessagesFetchProcess sets the flag
PollStop ==
  /\ lastCall' = "stop"
  /\ stopFetch' = TRUE
  /\ UNCHANGED <<gsocIndex, initsPending, fetchProcessRunning, pollPc, fetchCount>>
  /\ PollFrame

\* init() settled: history.init() fulfilled with the index of the chat feed
\* to read next, or initOwnIndex rejected and gsocIndex stays as it is.
InitSettled(fulfilled, index) ==
  /\ initsPending > 0
  /\ initsPending' = initsPending - 1
  /\ gsocIndex' = IF fulfilled THEN index ELSE gsocIndex
  /\ UNCHANGED <<fetchProcessRunning, stopFetch, pollPc, fetchCount, lastCall>>
  /\ PollFrame

\* fetchLatestMessage returned: a valid message was emitted and gsocIndex
\* advanced, or (no index yet, not found, invalid, error) nothing changed;
\* poll then calls setTimeout(poll, 200).
FetchLatestMessageReturned(valid) ==
  /\ pollPc = "fetching"
  /\ valid => gsocIndex # NoIndex /\ gsocIndex < MaxGsocIndex
  /\ gsocIndex' = IF valid THEN gsocIndex + 1 ELSE gsocIndex
  /\ pollPc' = "scheduled"
  /\ UNCHANGED <<initsPending, fetchProcessRunning, stopFetch, fetchCount, lastCall>>
  /\ PollFrame

\* The timeout runs poll: it ends the loop when stopFetch is set, else it
\* invokes fetchLatestMessage again.
PollTimeout ==
  /\ pollPc = "scheduled"
  /\ IF stopFetch
     THEN /\ fetchProcessRunning' = FALSE
          /\ pollPc' = "none"
          /\ UNCHANGED fetchCount
     ELSE /\ fetchCount < MaxFetches
          /\ pollPc' = "fetching"
          /\ fetchCount' = fetchCount + 1
          /\ UNCHANGED fetchProcessRunning
  /\ UNCHANGED <<gsocIndex, initsPending, stopFetch, lastCall>>
  /\ PollFrame

InitPoll == PollInit /\ OthersIdle({"poll"})

NextPoll ==
  \/ PollStart
  \/ PollStop
  \/ \E fulfilled \in BOOLEAN : \E index \in 0..MaxGsocIndex : InitSettled(fulfilled, index)
  \/ \E valid \in BOOLEAN : FetchLatestMessageReturned(valid)
  \/ PollTimeout

SpecPoll == InitPoll /\ [][NextPoll]_vars

\* C10: after any sequence of start() and stop() calls whose last call is
\* start() the poll loop is running: a fetchLatestMessage is in progress or
\* the next poll is scheduled.
C10_LoopRunsAfterStart ==
  lastCall = "start" => (pollPc = "fetching" \/ pollPc = "scheduled")


-----------------------------------------------------------------------------
(* stop() while a send is in progress: SwarmChat.stop                         *)
(* (unnamed/part_003:92-98) against the waitForBroadcast loop of sendMessage  *)
(* (src/utils/waitForBroadcast.ts:65-95).                                     *)

\* stop(): stopMessagesFetchProcess, stopIdleUserCleanup, unsubFromGSOCEvent,
\* history.stopHistoryUpdateProcess and emitter.cleanAll.  None of them
\* reaches the timer or the pending promise of a waitForBroadcast call, so the
\* sendMessage calls are left as they are.
SendStop ==
  /\ ~stopped
  /\ stopped' = TRUE
  /\ counterAtStop' = [s \in Senders |-> sender[s].counter]
  /\ StopFrame

InitSendStop == SendInit /\ UserInit /\ StopInit /\ OthersIdle({"send", "user", "stop"})

\* After stop() the application starts no new send, the GSOC subscription is
\* gone (unsubFromGSOCEvent) and the idle-user interval is cleared.
NextSendStop ==
  \/ SendStop
  \/ \E s \in Senders :
       \/ ~stopped /\ SendMessage(s)
       \/ FeedWriteResolved(s)
       \/ FeedWriteRejected(s)
       \/ \E sent \in BOOLEAN : BroadcastUserMessageReturned(s, sent)
       \/ CheckConditionTimer(s)
  \/ \E i \in 0..MaxSendIndex : ~stopped /\ OwnAnnouncementDelivered(i)
  \/ \E u \in Users \ {OWN} : \E i \in AnnouncedIndexes(u) :
       ~stopped /\ ProcessGsocEvent(u, i)
  \/ \E u \in Users : ~stopped /\ RemoveIdleUser(u)

SpecSendStop == InitSendStop /\ [][NextSendStop]_vars

\* C11: once stop() has returned, no waitForBroadcast loop invokes broadcast()
\* again: every sendMessage call keeps the broadcast() count it had at stop().
C11_NoBroadcastAfterStop ==
  stopped => \A s \in Senders : sender[s].counter = counterAtStop[s]


-----------------------------------------------------------------------------
(* stop() while the message-state pipeline runs: SwarmChat.stop               *)
(* (src/lib/core.ts:61-65) with SwarmHistory.cleanup                          *)
(* (unnamed/part_020:209-213).                                                *)

\* stop(): emitter.cleanAll, stopMessagesFetchProcess and history.cleanup(),
\* which clears the three ledgers.  The chains of init() and
\* fetchPreviousMessageState() hold no cancellation flag: a pending download or
\* retry sleep is left to complete.
Cleanup ==
  /\ ~stopped
  /\ stopped' = TRUE
  /\ processedRefs' = {}
  /\ refRetryCount' = EmptyMap
  /\ bannedRefs' = {}
  /\ UNCHANGED <<chain, downloads, alwaysFails, counterAtStop>>
  /\ RefStopFrame

InitRefsStop == RefInit /\ StopInit /\ OthersIdle({"ref", "stop"})

\* After stop() the application calls neither init() nor
\* fetchPreviousMessageState() again.
NextRefsStop ==
  \/ Cleanup
  \/ \E c \in Chains :
       \/ ~stopped /\ CallInit(c)
       \/ ~stopped /\ CallFetchPreviousMessageState(c)
       \/ \E refs \in RefLists : LatestChatMessageFetched(c, refs)
       \/ LatestChatMessageFailed(c)
       \/ DownloadSucceeded(c)
       \/ DownloadFailed(c)
       \/ RetryAfterSleep(c)

SpecRefsStop == InitRefsStop /\ [][NextRefsStop]_vars

\* C12: after stop() the processed set, the banned set and the retry counts
\* are empty and stay empty.
C12_LedgersStayEmptyAfterStop ==
  stopped => /\ processedRefs = {}
             /\ bannedRefs = {}
             /\ DOMAIN refRetryCount = {}


-----------------------------------------------------------------------------
(* Session initialisation: SwarmChat.init and initOwnIndex                    *)
(* (unnamed/part_003:177-211) with retryAwaitableAsync                        *)
(* (src/utils/common.ts:19-41).                                               *)

\* init() calling the history initialisation as a failure of the whole:
\* a rejected history.init() is rethrown like a rejected initOwnIndex().
initAfterSettled_HistoryCritical(own, hist) ==
  IF own = "rejected" \/ hist = "rejected"
  THEN [pc |-> "resolved", events |-> <<"CRITICAL_ERROR">>]
  ELSE [pc |-> "resolved", events |-> <<"LOADING_INIT false">>]

\* init() after Promise.allSettled: a rejected own index is thrown into the
\* catch block (handleError, CRITICAL_ERROR); a rejected history init is only
\* logged; LOADING_INIT false ends the try block.  Both paths return normally.
initAfterSettled(own, hist) ==
  IF own = "rejected"
  THEN [pc |-> "resolved", events |-> <<"CRITICAL_ERROR">>]
  ELSE [pc |-> "resolved", events |-> <<"LOADING_INIT false">>]

\* init(): emits LOADING_INIT true and starts initOwnIndex() and
\* history.init(); initOwnIndex calls retryAwaitableAsync(fn, RETRY_COUNT, DELAY),
\* which calls fn() at once.
ChatInit ==
  /\ initPc = "none"
  /\ initPc' = "waiting"
  /\ initEvents' = Append(initEvents, "LOADING_INIT true")
  /\ ownIndexPc' = "fetching"
  /\ UNCHANGED <<retries, ownIndexResult, historyInitResult>>
  /\ BootFrame

\* getLatestFeedIndex resolved: retryAwaitableAsync resolves and initOwnIndex
\* assigns this.ownIndex = latestIndex.
GetLatestFeedIndexResolved(latestIndex) ==
  /\ ownIndexPc = "fetching"
  /\ ownIndexPc' = "settled"
  /\ ownIndexResult' = "fulfilled"
  /\ ownIndex' = latestIndex
  /\ UNCHANGED <<initPc, retries, historyInitResult, initEvents>>
  /\ UNCHANGED <<sender, broadcasts, liveWrites>>
  /\ SendBootFrame

\* getLatestFeedIndex rejected: with retries > 0 a timer is set for the next
\* call, otherwise the error is handled and the promise rejects.
GetLatestFeedIndexRejected ==
  /\ ownIndexPc = "fetching"
  /\ IF retries > 0
     THEN /\ ownIndexPc' = "sleeping"
          /\ UNCHANGED ownIndexResult
     ELSE /\ ownIndexPc' = "settled"
          /\ ownIndexResult' = "rejected"
  /\ UNCHANGED <<initPc, retries, historyInitResult, initEvents>>
  /\ BootFrame

\* setTimeout(() => retryAwaitableAsync(fn, retries - 1, delay), delay)
RetryAwaitableAsync ==
  /\ ownIndexPc = "sleeping"
  /\ ownIndexPc' = "fetching"
  /\ retries' = retries - 1
  /\ UNCHANGED <<initPc, ownIndexResult, historyInitResult, initEvents>>
  /\ BootFrame

\* history.init() settles.
HistoryInitSettled(fulfilled) ==
  /\ initPc = "waiting"
  /\ historyInitResult = "pending"
  /\ historyInitResult' = IF fulfilled THEN "fulfilled" ELSE "rejected"
  /\ UNCHANGED <<initPc, ownIndexPc, retries, ownIndexResult, initEvents>>
  /\ BootFrame

\* Promise.allSettled resolved: the rest of init() runs.
AllSettled ==
  /\ initPc = "waiting"
  /\ ownIndexResult # "pending"
  /\ historyInitResult # "pending"
  /\ LET r == initAfterSettled(ownIndexResult, historyInitResult)
     IN /\ initPc' = r.pc
        /\ initEvents' = initEvents \o r.events
  /\ UNCHANGED <<ownIndexPc, retries, ownIndexResult, historyInitResult>>
  /\ BootFrame

InitBoot == BootInit /\ SendInit /\ OthersIdle({"boot", "send"})

NextBoot ==
  \/ ChatInit
  \/ \E latestIndex \in -1..MaxSendIndex : GetLatestFeedIndexResolved(latestIndex)
  \/ GetLatestFeedIndexRejected
  \/ RetryAwaitableAsync
  \/ \E fulfilled \in BOOLEAN : HistoryInitSettled(fulfilled)
  \/ AllSettled

SpecBoot == InitBoot /\ [][NextBoot]_vars

\* C15: init() emits LOADING_INIT true first and never rejects.  When the own
\* index could not be read after the retries it ends with CRITICAL_ERROR;
\* when only the history initialisation failed it emits no CRITICAL_ERROR
\* and still ends with LOADING_INIT false.
C15_InitErrorHandling ==
  /\ initPc # "rejected"
  /\ initPc # "none" => Head(initEvents) = "LOADING_INIT true"
  /\ initPc = "waiting" => initEvents = <<"LOADING_INIT true">>
  /\ ownIndexResult = "rejected" => retries = 0
  /\ (initPc = "resolved" /\ ownIndexResult = "rejected")
       => initEvents = <<"LOADING_INIT true", "CRITICAL_ERROR">>
  /\ (initPc = "resolved" /\ ownIndexResult = "fulfilled")
       => initEvents = <<"LOADING_INIT true", "LOADING_INIT false">>

\* init() returned after the history initialisation failed and the own index
\* was read at the last retry.
C15_Witness ==
  /\ initPc = "resolved"
  /\ historyInitResult = "rejected"
  /\ ownIndexResult = "fulfilled"
  /\ retries = 0
  /\ initEvents = <<"LOADING_INIT true", "LOADING_INIT false">>


-----------------------------------------------------------------------------
(* The checkpoint updater: SwarmChat.processGsocEvent                         *)
(* (unnamed/part_003:245-274) and SwarmHistory.processHistoryUpdaterEntry,    *)
(* fetchPreviousMessages, createHistoryEntry, waitForHistoryEntryBroadcast    *)
(* (unnamed/part_020:326-420, 520-535, 695-708) with waitForBroadcast         *)
(* (src/utils/waitForBroadcast.ts:65-95).  Mutex is the one of async-mutex.   *)

\* What the actions of this part leave alone besides the other parts
HistoryRest == UNCHANGED <<maxSizeBytes, trimBatch, trimInput, selections>>

\* uploadObjectToBee: the reference of an object is derived from its content
ReferenceOf(chatHistory) == ToString(chatHistory)

\* downloadObjectFromBee(ref): the uploaded object with that reference
Stored(ref) == {h \in store : ReferenceOf(h) = ref}

\* An updateLocalHistory that also credits the users it knows from the
\* history but not from the registry with their next index.
updateLocalHistory_AllTimeUsers(users, hist, first) ==
  LET idle == SelectSeq(hist, LAMBDA h : h.address \notin Addresses(users))
  IN mergeUserHistory(
       [k \in DOMAIN users |->
          [address |-> users[k].address, events |-> << >>,
           messageEntries |-> <<[index |-> users[k].index,
                                 timestamp |-> users[k].timestamp]>>]]
       \o [k \in DOMAIN idle |->
            [address |-> idle[k].address, events |-> << >>,
             messageEntries |->
               <<[index |-> idle[k].messageEntries[Len(idle[k].messageEntries)].index + 1,
                  timestamp |->
                    idle[k].messageEntries[Len(idle[k].messageEntries)].timestamp]>>]],
       hist, first)

\* updateLocalHistory(activeUsers): one message entry per active user, merged
\* into the local history.
updateLocalHistory(users, hist, first) ==
  mergeUserHistory(
    [k \in DOMAIN users |->
       [address |-> users[k].address, events |-> << >>,
        messageEntries |-> <<[index |-> users[k].index,
                              timestamp |-> users[k].timestamp]>>]],
    hist, first)

\* cleanupUpdaterEntryBuffer(entryId): entryId is NoIndex for undefined
cleanupUpdaterEntryBuffer(buffer, entryId) ==
  IF entryId # NoIndex
  THEN SelectSeq(buffer, LAMBDA entry : entry.id # entryId)
  ELSE buffer

\* createNewHistoryEntry(historyRef)
createNewHistoryEntry(entry, historyRef, now) ==
  [id |-> entry.id + 1, ref |-> historyRef, updater |-> ownAddress, timestamp |-> now]

\* A mutex that lets every caller in
MutexAcquire_NoWait(locked) == TRUE

\* await this.mutex.acquire() resolves when the mutex is not held
MutexAcquire(locked) == ~locked

\* A createHistoryEntry that does not look at processedUpdaterRefs
AlreadyProcessed_Never(entry, processed) == FALSE

\* this.processedUpdaterRefs.has(latestUpdaterEntry.ref)
AlreadyProcessed(entry, processed) == entry.ref \in processed

\* The positions of createHistoryEntry between mutex.acquire() and release()
InsideCreate == {"fetchingHistory", "uploading", "broadcasting", "waiting"}

\* processGsocEvent for a user message: a message equal to latestMessage is
\* dropped; otherwise the sender is registered, processHistoryUpdaterEntry is
\* called (not awaited: it first awaits the mutex) and latestMessage is set.
\* The entry is the sender's history entry with the updater the sender chose.
UserMessageReceived(messageSender, entry, updater) ==
  LET message == [messageSender |-> messageSender,
                  historyEntry |-> [entry EXCEPT !.updater = updater]]
  IN /\ message # latestMessage
     /\ Len(pending) + Len(updaterEntryBuffer) < MaxCandidates
     /\ activeUsers' = updateActiveUsers(activeUsers, messageSender)
     /\ pending' = Append(pending, message.historyEntry)
     /\ latestMessage' = message
     /\ UNCHANGED <<historyEntry, processedUpdaterRefs, mutexLocked, create, fetchPc,
                    published, store, completions, consumed, lastUpdateUsers>>
     /\ UNCHANGED <<history, updaterEntryBuffer>>
     /\ HistoryRest
     /\ HistoryFrame

\* processGsocEvent for a history message: setHistoryEntry.
HistoryMessageReceived(entry) ==
  LET message == [messageSender |-> NoSender, historyEntry |-> entry]
  IN /\ message # latestMessage
     /\ historyEntry' = entry
     /\ latestMessage' = message
     /\ UNCHANGED <<processedUpdaterRefs, mutexLocked, create, pending, fetchPc,
                    published, store, completions, consumed, lastUpdateUsers>>
     /\ UNCHANGED <<activeUsers, history, updaterEntryBuffer>>
     /\ HistoryRest
     /\ HistoryFrame

\* A buffer that takes every candidate, whoever it names
pushUpdaterEntry_Any(buffer, updaterEntry) == Append(buffer, updaterEntry)

\* if (updaterEntry.updater === this.ownAddress) this.updaterEntryBuffer.push(updaterEntry)
pushUpdaterEntry(buffer, updaterEntry) ==
  IF updaterEntry.updater = ownAddress THEN Append(buffer, updaterEntry) ELSE buffer

\* removeIdleUsers, see RemoveIdleUser

\* processHistoryUpdaterEntry once the mutex is acquired: updateLocalHistory
\* with the registry as it is now (the argument is the live object), the push
\* of an entry naming this peer, release().  No await lies in between.
ProcessHistoryUpdaterEntry ==
  /\ pending # << >>
  /\ MutexAcquire(mutexLocked)
  /\ history' = updateLocalHistory(activeUsers, history, keepsFirst)
  /\ lastUpdateUsers' = Addresses(activeUsers)
  /\ updaterEntryBuffer' = pushUpdaterEntry(updaterEntryBuffer, Head(pending))
  /\ pending' = Tail(pending)
  /\ UNCHANGED <<historyEntry, processedUpdaterRefs, mutexLocked, create, fetchPc,
                 published, store, latestMessage, completions, consumed>>
  /\ UNCHANGED activeUsers
  /\ HistoryRest
  /\ HistoryFrame

\* fetchPreviousMessages: called, inside the mutex (fetchHistory, the merge,
\* selectLatestMessages and readAllMessageEntry assign none of the fields
\* modelled here), released in the finally block.
FetchPreviousMessagesCalled ==
  /\ fetchPc = "idle"
  /\ fetchPc' = "acquiring"
  /\ UNCHANGED <<historyEntry, processedUpdaterRefs, mutexLocked, create, pending,
                 published, store, latestMessage, completions, consumed, lastUpdateUsers>>
  /\ UNCHANGED <<activeUsers, history, updaterEntryBuffer>>
  /\ HistoryRest
  /\ HistoryFrame

FetchPreviousMessagesAcquired ==
  /\ fetchPc = "acquiring"
  /\ MutexAcquire(mutexLocked)
  /\ fetchPc' = "inside"
  /\ mutexLocked' = TRUE
  /\ UNCHANGED <<historyEntry, processedUpdaterRefs, create, pending,
                 published, store, latestMessage, completions, consumed, lastUpdateUsers>>
  /\ UNCHANGED <<activeUsers, history, updaterEntryBuffer>>
  /\ HistoryRest
  /\ HistoryFrame

FetchPreviousMessagesReturned ==
  /\ fetchPc = "inside"
  /\ fetchPc' = "idle"
  /\ mutexLocked' = FALSE
  /\ UNCHANGED <<historyEntry, processedUpdaterRefs, create, pending,
                 published, store, latestMessage, completions, consumed, lastUpdateUsers>>
  /\ UNCHANGED <<activeUsers, history, updaterEntryBuffer>>
  /\ HistoryRest
  /\ HistoryFrame

\* The history update interval fires createHistoryEntry, which awaits the mutex.
CreateHistoryEntryCalled ==
  /\ create.pc = "idle"
  /\ create' = [IdleCreate EXCEPT !.pc = "acquiring"]
  /\ UNCHANGED <<historyEntry, processedUpdaterRefs, mutexLocked, pending, fetchPc,
                 published, store, latestMessage, completions, consumed, lastUpdateUsers>>
  /\ UNCHANGED <<activeUsers, history, updaterEntryBuffer>>
  /\ HistoryRest
  /\ HistoryFrame

\* createHistoryEntry with the mutex: the best candidate of a copy of the
\* buffer.  None, or one whose reference is processed: the buffer is cleaned
\* of that id and the call returns (finally: release).  Otherwise
\* fetchHistory(this.historyEntry) is awaited when the candidate has a
\* reference, else the local history is uploaded as it is.
CreateHistoryEntryAcquired ==
  /\ create.pc = "acquiring"
  /\ MutexAcquire(mutexLocked)
  /\ LET snapshot == updaterEntryBuffer
         latestUpdaterEntry == selectBestEntryForUpdate(snapshot)
     IN IF latestUpdaterEntry = NoEntry
           \/ AlreadyProcessed(latestUpdaterEntry, processedUpdaterRefs)
        THEN /\ updaterEntryBuffer' =
                  cleanupUpdaterEntryBuffer(updaterEntryBuffer, latestUpdaterEntry.id)
             /\ create' = [IdleCreate EXCEPT
                             !.outcome = IF latestUpdaterEntry = NoEntry
                                         THEN "nothing" ELSE "skipped"]
             /\ UNCHANGED mutexLocked
        ELSE /\ Cardinality(published) < MaxPublished
             /\ mutexLocked' = TRUE
             /\ create' = [create EXCEPT
                             !.pc = IF latestUpdaterEntry.ref # ""
                                    THEN "fetchingHistory" ELSE "uploading",
                             !.snapshot = snapshot,
                             !.latest = latestUpdaterEntry,
                             !.fetched = historyEntry.ref,
                             !.fetchedId = historyEntry.id,
                             !.newHistory = history]
             /\ UNCHANGED updaterEntryBuffer
  /\ UNCHANGED <<historyEntry, processedUpdaterRefs, pending, fetchPc,
                 published, store, latestMessage, completions, consumed, lastUpdateUsers>>
  /\ UNCHANGED <<activeUsers, history>>
  /\ HistoryRest
  /\ HistoryFrame

\* The catch and finally blocks of createHistoryEntry: the error is handled,
\* the mutex released.
CreateHistoryEntryCatch ==
  /\ create' = [IdleCreate EXCEPT !.outcome = "failed"]
  /\ mutexLocked' = FALSE
  /\ UNCHANGED <<processedUpdaterRefs, completions, consumed, updaterEntryBuffer>>

\* fetchHistory returned: the stored history when it is valid, else null, and
\* newHistory is the merge of it with the local history, or the local history.
FetchHistoryReturned(valid) ==
  /\ create.pc = "fetchingHistory"
  /\ valid => Stored(create.fetched) # {}
  /\ create' = [create EXCEPT
                  !.pc = "uploading",
                  !.newHistory =
                    IF valid
                    THEN mergeChatHistory(CHOOSE h \in Stored(create.fetched) : TRUE,
                                          history, keepsFirst)
                    ELSE history]
  /\ UNCHANGED <<historyEntry, processedUpdaterRefs, mutexLocked, pending, fetchPc,
                 published, store, latestMessage, completions, consumed, lastUpdateUsers>>
  /\ UNCHANGED <<activeUsers, history, updaterEntryBuffer>>
  /\ HistoryRest
  /\ HistoryFrame

\* downloadObjectFromBee threw inside fetchHistory.
FetchHistoryThrew ==
  /\ create.pc = "fetchingHistory"
  /\ CreateHistoryEntryCatch
  /\ UNCHANGED <<historyEntry, pending, fetchPc, published, store, latestMessage,
                 lastUpdateUsers>>
  /\ UNCHANGED <<activeUsers, history>>
  /\ HistoryRest
  /\ HistoryFrame

\* checkCondition of waitForBroadcast for waitForHistoryEntryBroadcast(newEntry):
\* the condition holds: resolve, and createHistoryEntry cleans the buffer of
\* the candidate's id, marks its reference processed and releases; the
\* counter is used up: reject with 'Broadcast timeout' into the catch block;
\* otherwise counter++ and broadcast().
WaitForHistoryEntryBroadcast(call) ==
  IF historyEntry.ref = call.newEntry.ref
  THEN /\ updaterEntryBuffer' = cleanupUpdaterEntryBuffer(updaterEntryBuffer, call.latest.id)
       /\ processedUpdaterRefs' = processedUpdaterRefs \cup {call.latest.ref}
       /\ completions' = MapSet(completions, call.latest.ref,
                                  IF call.latest.ref \in DOMAIN completions
                                  THEN completions[call.latest.ref] + 1 ELSE 1)
       /\ consumed' = consumed \cup {call.latest.id}
       /\ create' = [IdleCreate EXCEPT !.outcome = "published"]
       /\ mutexLocked' = FALSE
  ELSE IF call.counter >= maxRetries
       THEN /\ create' = [IdleCreate EXCEPT !.outcome = "timeout"]
            /\ mutexLocked' = FALSE
            /\ UNCHANGED <<processedUpdaterRefs, completions, consumed, updaterEntryBuffer>>
       ELSE /\ create' = [call EXCEPT !.pc = "broadcasting", !.counter = @ + 1]
            /\ UNCHANGED <<mutexLocked, processedUpdaterRefs, completions, consumed,
                           updaterEntryBuffer>>

\* An upload failure that drops the candidate it was working on
UploadHistoryRejected_DropsCandidate ==
  /\ create.pc = "uploading"
  /\ create' = [IdleCreate EXCEPT !.outcome = "failed"]
  /\ mutexLocked' = FALSE
  /\ updaterEntryBuffer' = cleanupUpdaterEntryBuffer(updaterEntryBuffer, create.latest.id)
  /\ UNCHANGED <<processedUpdaterRefs, completions, consumed>>
  /\ UNCHANGED <<historyEntry, pending, fetchPc, published, store, latestMessage,
                 lastUpdateUsers>>
  /\ UNCHANGED <<activeUsers, history>>
  /\ HistoryRest
  /\ HistoryFrame

\* uploadHistory threw (the upload failed or returned no reference).
UploadHistoryRejected ==
  /\ create.pc = "uploading"
  /\ CreateHistoryEntryCatch
  /\ UNCHANGED <<historyEntry, pending, fetchPc, published, store, latestMessage,
                 lastUpdateUsers>>
  /\ UNCHANGED <<activeUsers, history>>
  /\ HistoryRest
  /\ HistoryFrame

\* uploadHistory resolved: createNewHistoryEntry from the history entry known
\* now, then waitForHistoryEntryBroadcast, whose first checkCondition runs at once.
UploadHistoryResolved(now) ==
  /\ create.pc = "uploading"
  /\ store' = store \cup {create.newHistory}
  /\ WaitForHistoryEntryBroadcast(
       [create EXCEPT !.newEntry = createNewHistoryEntry(historyEntry,
                                     ReferenceOf(create.newHistory), now)])
  /\ UNCHANGED <<historyEntry, pending, fetchPc, published, latestMessage,
                 lastUpdateUsers>>
  /\ UNCHANGED <<activeUsers, history>>
  /\ HistoryRest
  /\ HistoryFrame

\* broadcastHistoryEntry returned (it swallows its errors): the GSOC node
\* accepted the entry or not; setTimeout(checkCondition, intervalMs).
BroadcastHistoryEntryReturned(sent) ==
  /\ create.pc = "broadcasting"
  /\ create' = [create EXCEPT !.pc = "waiting"]
  /\ published' = IF sent THEN published \cup {create.newEntry} ELSE published
  /\ UNCHANGED <<historyEntry, processedUpdaterRefs, mutexLocked, pending, fetchPc,
                 store, latestMessage, completions, consumed, lastUpdateUsers>>
  /\ UNCHANGED <<activeUsers, history, updaterEntryBuffer>>
  /\ HistoryRest
  /\ HistoryFrame

\* The timer of waitForBroadcast fires checkCondition.
HistoryCheckConditionTimer ==
  /\ create.pc = "waiting"
  /\ WaitForHistoryEntryBroadcast(create)
  /\ UNCHANGED <<historyEntry, pending, fetchPc, published, store, latestMessage,
                 lastUpdateUsers>>
  /\ UNCHANGED <<activeUsers, history>>
  /\ HistoryRest
  /\ HistoryFrame

\* The history entry a sender attaches: the default one, or the one this peer
\* knows as the latest
KnownEntries == {DefaultEntry, historyEntry}

InitUpdater ==
  /\ UpdInit /\ UserInit /\ TrimIdle /\ SelectIdle
  /\ OthersIdle({"upd", "user", "trim", "select"})

\* The updater at work: another user sends, every message names this peer as
\* the next updater and no user idles long enough to be swept.
NextUpdater ==
  \/ \E messageSender \in {m \in MessageSenders : m.address # ownAddress},
          entry \in KnownEntries :
       UserMessageReceived(messageSender, entry, ownAddress)
  \/ \E entry \in published : HistoryMessageReceived(entry)
  \/ ProcessHistoryUpdaterEntry
  \/ FetchPreviousMessagesCalled
  \/ FetchPreviousMessagesAcquired
  \/ FetchPreviousMessagesReturned
  \/ CreateHistoryEntryCalled
  \/ CreateHistoryEntryAcquired
  \/ \E valid \in BOOLEAN : FetchHistoryReturned(valid)
  \/ FetchHistoryThrew
  \/ UploadHistoryRejected
  \/ \E now \in UploadTimes : UploadHistoryResolved(now)
  \/ \E sent \in BOOLEAN : BroadcastHistoryEntryReturned(sent)
  \/ HistoryCheckConditionTimer

SpecUpdater == InitUpdater /\ [][NextUpdater]_vars

\* The registry and the local history: announcements naming any updater, the
\* idle sweep, and fetchPreviousMessages holding the mutex meanwhile.
NextLocalHistory ==
  \/ \E messageSender \in MessageSenders, updater \in Users :
       UserMessageReceived(messageSender, DefaultEntry, updater)
  \/ \E u \in Users : RemoveIdleUser(u)
  \/ ProcessHistoryUpdaterEntry
  \/ FetchPreviousMessagesCalled
  \/ FetchPreviousMessagesAcquired
  \/ FetchPreviousMessagesReturned

SpecLocalHistory == InitUpdater /\ [][NextLocalHistory]_vars


\* The updater among peers: other peers publish checkpoints of their own, whose
\* history messages arrive at any time.
InitUpdaterPeers ==
  /\ UpdAmongPeers /\ UserInit /\ TrimIdle /\ SelectIdle
  /\ OthersIdle({"upd", "user", "trim", "select"})

NextUpdaterPeers ==
  \/ \E messageSender \in {m \in MessageSenders : m.address # ownAddress /\ m.index = 0} :
       UserMessageReceived(messageSender, historyEntry, ownAddress)
  \/ \E entry \in PeerEntries \cup published : HistoryMessageReceived(entry)
  \/ ProcessHistoryUpdaterEntry
  \/ CreateHistoryEntryCalled
  \/ CreateHistoryEntryAcquired
  \/ \E valid \in BOOLEAN : FetchHistoryReturned(valid)
  \/ FetchHistoryThrew
  \/ UploadHistoryRejected
  \/ \E now \in UploadTimes : UploadHistoryResolved(now)
  \/ \E sent \in BOOLEAN : BroadcastHistoryEntryReturned(sent)
  \/ HistoryCheckConditionTimer

SpecUpdaterPeers == InitUpdaterPeers /\ [][NextUpdaterPeers]_vars

\* The message entries the history holds for a user
EntriesOf(hist, u) ==
  IF u \in Addresses(hist) THEN hist[UserOf(hist, u)].messageEntries ELSE << >>

C16_UniqueGenerationIds ==
  \A e1, e2 \in published : e1.id = e2.id => e1.ref = e2.ref

\* C17: createHistoryEntry and fetchPreviousMessages are never both inside the
\* mutex; while either is inside, no processHistoryUpdaterEntry runs: the
\* history and the buffer stay as they are, and the buffer createHistoryEntry
\* rewrites at its end is the one it selected its candidate from.
C17_MutualExclusion ==
  /\ [](/\ ~(create.pc \in InsideCreate /\ fetchPc = "inside")
        /\ create.pc \in InsideCreate => updaterEntryBuffer = create.snapshot)
  /\ [][((create.pc \in InsideCreate /\ create'.pc \in InsideCreate)
           \/ (fetchPc = "inside" /\ fetchPc' = "inside"))
          => (history' = history /\ updaterEntryBuffer' = updaterEntryBuffer)]_vars

\* createHistoryEntry holds the mutex while a candidate for this peer and a
\* fetchPreviousMessages call wait for it.
C17_Witness ==
  /\ create.pc = "waiting"
  /\ fetchPc = "acquiring"
  /\ pending # << >>
  /\ Head(pending).updater = ownAddress

\* C18: a createHistoryEntry run that holds the mutex changes the buffer and
\* processedUpdaterRefs only in the step in which waitForBroadcast resolved:
\* the buffer loses the entries of the candidate's id and the processed set
\* gains its reference.  A run ended by a failed fetch or upload or by the
\* broadcast timeout leaves both as they were.  Either way the mutex is
\* released at the end.
C18_ConsumedOnlyAfterBroadcast ==
  [][create.pc \in InsideCreate =>
       /\ create'.pc \in InsideCreate =>
            /\ updaterEntryBuffer' = updaterEntryBuffer
            /\ processedUpdaterRefs' = processedUpdaterRefs
            /\ mutexLocked'
       /\ create'.pc = "idle" =>
            /\ ~mutexLocked'
            /\ IF create'.outcome = "published"
               THEN /\ historyEntry.ref = ReferenceOf(create.newHistory)
                    /\ updaterEntryBuffer' =
                         cleanupUpdaterEntryBuffer(updaterEntryBuffer, create.latest.id)
                    /\ processedUpdaterRefs' = processedUpdaterRefs \cup {create.latest.ref}
               ELSE /\ create'.outcome \in {"failed", "timeout"}
                    /\ updaterEntryBuffer' = updaterEntryBuffer
                    /\ processedUpdaterRefs' = processedUpdaterRefs]_vars

\* One publication completed and a later run for another candidate timed out:
\* that candidate is still buffered and its reference is not processed.
C18_Witness ==
  /\ create.pc = "idle"
  /\ create.outcome = "timeout"
  /\ ~mutexLocked
  /\ DOMAIN completions # {}
  /\ selectBestEntryForUpdate(updaterEntryBuffer) # NoEntry
  /\ selectBestEntryForUpdate(updaterEntryBuffer).ref \notin processedUpdaterRefs

\* C19: createHistoryEntry works (fetches, uploads, broadcasts) only for a
\* candidate whose reference is not in processedUpdaterRefs, and no candidate
\* reference has two completed publications.
C19_OnePublicationPerCandidate ==
  /\ create.pc \in InsideCreate => create.latest.ref \notin processedUpdaterRefs
  /\ \A ref \in DOMAIN completions : completions[ref] = 1
  /\ DOMAIN completions = processedUpdaterRefs

\* A candidate whose reference was published for was delivered again and
\* skipped.
C19_Witness ==
  /\ create.pc = "idle"
  /\ create.outcome = "skipped"
  /\ updaterEntryBuffer = << >>
  /\ latestMessage.historyEntry.updater = ownAddress
  /\ latestMessage.historyEntry.ref \in DOMAIN completions

-----------------------------------------------------------------------------
(* waitForBroadcast on its own: src/utils/waitForBroadcast.ts:65-95 (the     *)
(* copy at lines 17-47 differs in intervalMs and the logger only).           *)

\* A checkCondition that allows one broadcast more: counter > maxRetries
waitCheckCondition_OneMore(rec, isProcessed) ==
  IF isProcessed
  THEN [rec EXCEPT !.pc = "settled", !.outcome = "resolved", !.isProcessed = TRUE]
  ELSE IF rec.counter > rec.maxRetries
       THEN [rec EXCEPT !.pc = "settled", !.outcome = "Broadcast timeout",
                        !.isProcessed = FALSE]
       ELSE [rec EXCEPT !.pc = "broadcasting", !.counter = @ + 1, !.invoked = @ + 1,
                        !.isProcessed = FALSE]

\* checkCondition up to its await: resolve when condition() holds, reject when
\* counter >= maxRetries, else counter++ and invoke broadcast()
waitCheckCondition(rec, isProcessed) ==
  IF isProcessed
  THEN [rec EXCEPT !.pc = "settled", !.outcome = "resolved", !.isProcessed = TRUE]
  ELSE IF rec.counter >= rec.maxRetries
       THEN [rec EXCEPT !.pc = "settled", !.outcome = "Broadcast timeout",
                        !.isProcessed = FALSE]
       ELSE [rec EXCEPT !.pc = "broadcasting", !.counter = @ + 1, !.invoked = @ + 1,
                        !.isProcessed = FALSE]

\* waitForBroadcast(options): the executor sets counter = 0 and runs
\* checkCondition() at once.
WaitForBroadcast(w, budget) ==
  /\ waiter[w].pc = "idle"
  /\ waiter' = [waiter EXCEPT ![w] =
                  waitCheckCondition([IdleWaiter EXCEPT !.maxRetries = budget],
                                     conditionHolds[w])]
  /\ UNCHANGED conditionHolds
  /\ WaitFrame

\* await broadcast() returned: setTimeout(checkCondition, intervalMs)
WaitBroadcastReturned(w) ==
  /\ waiter[w].pc = "broadcasting"
  /\ waiter' = [waiter EXCEPT ![w].pc = "sleeping"]
  /\ UNCHANGED conditionHolds
  /\ WaitFrame

\* await broadcast() threw: the catch block logs, then setTimeout(checkCondition, intervalMs)
WaitBroadcastThrew(w) ==
  /\ waiter[w].pc = "broadcasting"
  /\ waiter' = [waiter EXCEPT ![w].pc = "sleeping", ![w].threw = @ + 1]
  /\ UNCHANGED conditionHolds
  /\ WaitFrame

\* The timeout fires: checkCondition runs again
WaitTimerFired(w) ==
  /\ waiter[w].pc = "sleeping"
  /\ waiter' = [waiter EXCEPT ![w] = waitCheckCondition(@, conditionHolds[w])]
  /\ UNCHANGED conditionHolds
  /\ WaitFrame

\* The environment: what condition() reads changes at any time
ConditionChanges(w) ==
  /\ conditionHolds' = [conditionHolds EXCEPT ![w] = ~@]
  /\ UNCHANGED waiter
  /\ WaitFrame

InitWait == WaitInit /\ OthersIdle({"wait"})

NextWait ==
  \E w \in Waiters :
    \/ \E budget \in RetryBudgets : WaitForBroadcast(w, budget)
    \/ WaitBroadcastReturned(w)
    \/ WaitBroadcastThrew(w)
    \/ WaitTimerFired(w)
    \/ ConditionChanges(w)

\* Every broadcast() call returns or throws, and the runtime fires every timeout.
FairSpecWait ==
  /\ InitWait /\ [][NextWait]_vars
  /\ \A w \in Waiters :
       /\ WF_vars(WaitBroadcastReturned(w) \/ WaitBroadcastThrew(w))
       /\ WF_vars(WaitTimerFired(w))

\* C21: every waitForBroadcast call settles; it resolves only when the
\* evaluation of condition() that ended it returned true, else it rejects with
\* 'Broadcast timeout' after exactly maxRetries broadcast() invocations; a
\* broadcast() that throws is one of these invocations and never settles the
\* promise; no broadcast() is invoked once the promise settled.
C21_AlwaysSettles ==
  /\ [](\A w \in Waiters :
          LET rec == waiter[w] IN
          /\ rec.threw <= rec.invoked /\ rec.invoked = rec.counter
          /\ rec.pc = "settled" =>
               /\ rec.outcome \in {"resolved", "Broadcast timeout"}
               /\ rec.outcome = "resolved" <=> rec.isProcessed
               /\ rec.outcome = "Broadcast timeout" => rec.invoked = rec.maxRetries
          /\ rec.pc # "settled" => rec.outcome = "pending")
  /\ [][\A w \in Waiters :
          /\ waiter[w].pc = "settled" => waiter'[w] = waiter[w]
          /\ waiter'[w].threw # waiter[w].threw => waiter'[w].pc = "sleeping"]_vars
  /\ \A w \in Waiters : (waiter[w].pc # "idle") ~> (waiter[w].pc = "settled")

\* One call rejected after maxRetries = 5 broadcasts some of which threw, the
\* other resolved after a broadcast.
C21_Witness ==
  \E w, x \in Waiters :
    /\ waiter[w].outcome = "Broadcast timeout" /\ waiter[w].invoked = maxRetries
    /\ waiter[w].threw >= 1
    /\ waiter[x].outcome = "resolved" /\ waiter[x].invoked >= 1

-----------------------------------------------------------------------------
(* SwarmHistory.init of the history variant (unnamed/part_020:290-309),      *)
(* started and not awaited by SwarmChat.start (unnamed/part_003:84-90),      *)
(* which subscribes to the GSOC events right after.                          *)

\* The (address, feedIndex) pairs a history holds
Pairs(hist) ==
  UNION {{<<hist[k].address, hist[k].messageEntries[j].index>> :
            j \in DOMAIN hist[k].messageEntries} : k \in DOMAIN hist}

\* init() up to its first await: fetchLatestHistoryEntry
HistoryInit ==
  /\ historyInitPc = "none"
  /\ historyInitPc' = "fetchingEntry"
  /\ UNCHANGED <<initEntry, initLost>>
  /\ UNCHANGED updVars
  /\ UNCHANGED <<activeUsers, history, updaterEntryBuffer>>
  /\ HistoryRest
  /\ HistoryInitFrame

\* fetchLatestHistoryEntry returned entry (NoEntry for null: nothing on the
\* node, an invalid message, or an error, which it catches).  Without entry
\* and without historyEntry the default entry is initialised; an entry with a
\* reference is set and its history is fetched; otherwise init() returns.
FetchLatestHistoryEntryReturned(entry) ==
  /\ historyInitPc = "fetchingEntry"
  /\ initEntry' = entry
  /\ IF historyEntry = NoEntry /\ entry = NoEntry
     THEN historyEntry' = DefaultEntry /\ historyInitPc' = "returned"
     ELSE IF entry # NoEntry /\ entry.ref # ""
          THEN historyEntry' = entry /\ historyInitPc' = "fetchingHistory"
          ELSE UNCHANGED historyEntry /\ historyInitPc' = "returned"
  /\ UNCHANGED initLost
  /\ UNCHANGED <<processedUpdaterRefs, mutexLocked, create, pending, fetchPc,
                 published, store, latestMessage, completions, consumed, lastUpdateUsers>>
  /\ UNCHANGED <<activeUsers, history, updaterEntryBuffer>>
  /\ HistoryRest
  /\ HistoryInitFrame

\* this.history = history || this.history (fetched is << >> for null)
initHistory(fetched, local) ==
  IF fetched = << >> THEN local ELSE fetched

\* fetchHistory(entry) returned the snapshot, or null for invalid data: the
\* history is assigned and trimmed, and fetchPreviousMessages is called.
InitFetchHistoryReturned(valid) ==
  /\ historyInitPc = "fetchingHistory"
  /\ fetchPc = "idle"
  /\ LET found == Stored(initEntry.ref)
         fetched == IF valid /\ found # {} THEN CHOOSE h \in found : TRUE ELSE << >>
         assigned == initHistory(fetched, history)
     IN /\ history' = trimHistory(assigned, DefaultMaxSizeBytes, DefaultTrimBatch)
        /\ initLost' = initLost \cup (Pairs(history) \ Pairs(assigned))
  /\ historyInitPc' = "fetchingPrevious"
  /\ fetchPc' = "acquiring"
  /\ UNCHANGED initEntry
  /\ UNCHANGED <<historyEntry, processedUpdaterRefs, mutexLocked, create, pending,
                 published, store, latestMessage, completions, consumed, lastUpdateUsers>>
  /\ UNCHANGED <<activeUsers, updaterEntryBuffer>>
  /\ HistoryRest
  /\ HistoryInitFrame

\* downloadObjectFromBee rejected inside fetchHistory: init() rejects
InitFetchHistoryThrew ==
  /\ historyInitPc = "fetchingHistory"
  /\ historyInitPc' = "rejected"
  /\ UNCHANGED <<initEntry, initLost>>
  /\ UNCHANGED updVars
  /\ UNCHANGED <<activeUsers, history, updaterEntryBuffer>>
  /\ HistoryRest
  /\ HistoryInitFrame

\* await fetchPreviousMessages(...) returned: init() returns
InitFetchPreviousReturned ==
  /\ historyInitPc = "fetchingPrevious"
  /\ fetchPc = "idle"
  /\ historyInitPc' = "returned"
  /\ UNCHANGED <<initEntry, initLost>>
  /\ UNCHANGED updVars
  /\ UNCHANGED <<activeUsers, history, updaterEntryBuffer>>
  /\ HistoryRest
  /\ HistoryInitFrame

InitHistoryInit ==
  UpdConstructed /\ UserInit /\ TrimIdle /\ SelectIdle /\ HinitInit
    /\ OthersIdle({"upd", "user", "trim", "select", "hinit"})

\* A session starting: init() runs while the GSOC subscription delivers user
\* messages (another peer is named updater) and history messages.
NextHistoryInit ==
  \/ HistoryInit
  \/ \E entry \in FetchedEntries \cup {NoEntry} : FetchLatestHistoryEntryReturned(entry)
  \/ \E valid \in BOOLEAN : InitFetchHistoryReturned(valid)
  \/ InitFetchHistoryThrew
  \/ InitFetchPreviousReturned
  \/ FetchPreviousMessagesAcquired
  \/ FetchPreviousMessagesReturned
  \/ \E messageSender \in MessageSenders : \E entry \in FetchedEntries :
       UserMessageReceived(messageSender, entry, "u2")
  \/ \E entry \in {e \in FetchedEntries : e.ref # ""} : HistoryMessageReceived(entry)
  \/ ProcessHistoryUpdaterEntry

SpecHistoryInit == InitHistoryInit /\ [][NextHistoryInit]_vars

\* C27: init() removes no (address, feedIndex) entry from the local history
\* when it takes over the remote snapshot: what processHistoryUpdaterEntry
\* folded in before is still there (trimming apart).
C27_InitKeepsLocalEntries == initLost = {}

\* C28: once init() has returned, historyEntry is set: the default entry when
\* no entry was fetched and none had arrived, otherwise a fetched or received
\* entry.
C28_EntrySetAfterInit ==
  historyInitPc = "returned" =>
    /\ historyEntry # NoEntry
    /\ initEntry = NoEntry => historyEntry \in {DefaultEntry} \cup FetchedEntries

\* C29: the id of the checkpoint a createHistoryEntry run broadcasts is one
\* greater than the id of the history entry whose snapshot the run fetched.
C29_IdFollowsFetchedEntry ==
  (create.pc \in {"broadcasting", "waiting"} /\ create.latest.ref # "")
    => create.newEntry.id = create.fetchedId + 1

\* C30: the snapshot a createHistoryEntry run fetches for a candidate with a
\* reference is the one the candidate's reference points to.
C30_FetchesCandidateSnapshot ==
  create.pc = "fetchingHistory" => create.fetched = create.latest.ref

\* C31: a createHistoryEntry run never publishes a checkpoint from a buffered
\* candidate whose generationId is lower than that of a candidate an earlier
\* run of this peer has consumed.
C31_NoOlderGenerationPublished ==
  (create.pc = "waiting" /\ create.newEntry \in published)
    => \A g \in consumed : create.latest.id >= g

\* The election: the senders name any user as the next updater, and the peer
\* runs createHistoryEntry on what its buffer holds.
NextElection ==
  \/ \E messageSender \in {m \in MessageSenders : m.address # ownAddress /\ m.index = 0},
          updater \in Users :
       UserMessageReceived(messageSender, historyEntry, updater)
  \/ \E entry \in published : HistoryMessageReceived(entry)
  \/ ProcessHistoryUpdaterEntry
  \/ CreateHistoryEntryCalled
  \/ CreateHistoryEntryAcquired
  \/ \E valid \in BOOLEAN : FetchHistoryReturned(valid)
  \/ FetchHistoryThrew
  \/ UploadHistoryRejected
  \/ \E now \in UploadTimes : UploadHistoryResolved(now)
  \/ \E sent \in BOOLEAN : BroadcastHistoryEntryReturned(sent)
  \/ HistoryCheckConditionTimer

SpecElection == InitUpdater /\ [][NextElection]_vars

\* C32: every entry of the updater candidate buffer names the local peer as
\* updater, and a createHistoryEntry run that is past its selection works on a
\* candidate that names the local peer and that the buffer held when the run
\* selected: no candidate naming another peer makes the peer publish.
C32_OnlyOwnCandidatesPublish ==
  /\ \A i \in DOMAIN updaterEntryBuffer : updaterEntryBuffer[i].updater = ownAddress
  /\ create.pc \in InsideCreate =>
       /\ create.latest.updater = ownAddress
       /\ \E i \in DOMAIN create.snapshot : create.snapshot[i] = create.latest

\* C32 witness: a candidate naming another peer was processed, and the peer
\* has broadcast a checkpoint for a candidate of its own.
C32_Witness ==
  /\ latestMessage.messageSender # NoSender
  /\ latestMessage.historyEntry.updater # ownAddress
  /\ pending = << >>
  /\ create.pc = "waiting"
  /\ create.newEntry \in published

-----------------------------------------------------------------------------
(* Loading previous messages with a bounded cache: lib/history.ts:304-386 *)

MAX_LOADED_MESSAGES_CACHE_SIZE == 10

\* The message entries a history holds at most, those of the peer itself, and
\* the fetchPreviousMessages calls of a run
MaxLoadEntries == 11
MaxOwnEntries == 1
MaxLoadCalls == 3

\* `${address}:${entry.index}`
CacheKey(userEntry) == [address |-> userEntry.address, index |-> userEntry.entry.index]

\* for (address, history) of Object.entries(userHistories)
\*   for (entry of history.messageEntries) allEntries.push({address, entry})
RECURSIVE UserMessageEntries(_)
UserMessageEntries(userHistories) ==
  IF userHistories = << >> THEN << >>
  ELSE LET user == Head(userHistories)
       IN [i \in DOMAIN user.messageEntries |->
             [address |-> user.address, entry |-> user.messageEntries[i]]]
          \o UserMessageEntries(Tail(userHistories))

\* allEntries.sort((a, b) => b.entry.timestamp - a.entry.timestamp): a stable
\* sort, latest first
RECURSIVE InsertLatestFirst(_, _)
InsertLatestFirst(e, s) ==
  IF s = << >> THEN <<e>>
  ELSE IF Head(s).entry.timestamp >= e.entry.timestamp
       THEN <<Head(s)>> \o InsertLatestFirst(e, Tail(s))
       ELSE <<e>> \o s

RECURSIVE SortLatestFirst(_)
SortLatestFirst(s) ==
  IF s = << >> THEN << >>
  ELSE InsertLatestFirst(s[Len(s)], SortLatestFirst(SubSeq(s, 1, Len(s) - 1)))

\* The selection loop: an entry whose key the cache lacks is selected and its
\* key is added; the loop breaks at MAX_LOADED_MESSAGES_CACHE_SIZE selected.
RECURSIVE SelectLoop(_, _, _)
SelectLoop(rest, selected, cache) ==
  IF rest = << >> \/ Len(selected) = MAX_LOADED_MESSAGES_CACHE_SIZE
  THEN [selected |-> selected, cache |-> cache]
  ELSE IF CacheKey(Head(rest)) \in Range(cache)
       THEN SelectLoop(Tail(rest), selected, cache)
       ELSE SelectLoop(Tail(rest), Append(selected, Head(rest)),
                       Append(cache, CacheKey(Head(rest))))

\* while (cache.size > MAX_LOADED_MESSAGES_CACHE_SIZE) cache.delete([...cache][0])
LimitCache(cache) ==
  IF Len(cache) > MAX_LOADED_MESSAGES_CACHE_SIZE
  THEN SubSeq(cache, Len(cache) - MAX_LOADED_MESSAGES_CACHE_SIZE + 1, Len(cache))
  ELSE cache

\* selectLatestMessages(userHistories): the selected entries and the cache left
selectLatestMessages(userHistories, cache) ==
  LET loop == SelectLoop(SortLatestFirst(UserMessageEntries(userHistories)), << >>, cache)
  IN [selected |-> loop.selected, cache |-> LimitCache(loop.cache)]

\* updateLocalHistory between the calls: a user's next message entry
LoadMessageEntry(address) ==
  /\ Len(UserMessageEntries(allTimeUsers)) < MaxLoadEntries
  /\ address = ownAddress => Len(EntriesOf(allTimeUsers, address)) < MaxOwnEntries
  /\ LET entry == [index |-> Len(EntriesOf(allTimeUsers, address)), timestamp |-> loadClock]
     IN allTimeUsers' =
          IF address \in Addresses(allTimeUsers)
          THEN [allTimeUsers EXCEPT ![UserOf(allTimeUsers, address)].messageEntries =
                                      Append(@, entry)]
          ELSE Append(allTimeUsers,
                      [address |-> address, events |-> << >>, messageEntries |-> <<entry>>])
  /\ loadClock' = loadClock + 1
  /\ UNCHANGED <<loadedMessagesCache, latestMessages, returnedBefore, returnedAgain,
                 loadCalls>>
  /\ LoadFrame

\* fetchPreviousMessages({preDownload: false}) inside the mutex:
\* selectLatestMessages(this.history.allTimeUsers), then readAllMessageEntry
\* of what it returned.
LoadPreviousMessages ==
  /\ loadCalls < MaxLoadCalls
  /\ loadCalls' = loadCalls + 1
  /\ LET result == selectLatestMessages(allTimeUsers, loadedMessagesCache)
         keys == {CacheKey(result.selected[i]) : i \in DOMAIN result.selected}
     IN /\ latestMessages' = result.selected
        /\ loadedMessagesCache' = result.cache
        /\ returnedAgain' = returnedAgain \cup (keys \cap returnedBefore)
        /\ returnedBefore' = returnedBefore \cup keys
  /\ UNCHANGED <<allTimeUsers, loadClock>>
  /\ LoadFrame

InitLoad == LoadInit /\ OthersIdle({"load"})

NextLoad ==
  \/ \E address \in Users : LoadMessageEntry(address)
  \/ LoadPreviousMessages

SpecLoad == InitLoad /\ [][NextLoad]_vars

\* C34: selectLatestMessages returns no (address, feedIndex) entry that an
\* earlier call on this SwarmHistory returned.
C34_NeverReturnedTwice == returnedAgain = {}

-----------------------------------------------------------------------------
(* The read batches of the live fetch pipeline (Spec), continued *)

\* C35: a failed feed read of the observed user leaves the last-read index
\* cache and the queued reads of the batch as they are, emits nothing, and the
\* queue goes on processing: while tasks are queued, processQueue is running.
C35_FailedReadIsSwallowed ==
  /\ [](tasks # << >> => isProcessing)
  /\ [][(/\ running # NoRead
         /\ running.address = Observed
         /\ running' = NoRead
         /\ calls'[Len(calls')].failed)
        => /\ userIndexCache' = userIndexCache
           /\ tasks' = tasks
           /\ isProcessing'
           /\ calls'[Len(calls')].emit = NoIndex]_vars

\* C35 witness: the read of the observed user has failed, nothing is cached
\* for it, and the read of another user of the batch is next in the queue.
C35_Witness ==
  /\ calls # << >>
  /\ calls[Len(calls)].failed
  /\ Observed \notin DOMAIN userIndexCache
  /\ running = NoRead
  /\ isProcessing
  /\ tasks # << >>
  /\ Head(tasks).address # Observed

\* C36: read batches never overlap: a tick enqueues its read tasks only when
\* no task is queued or executing, a readMessage starts only when none is
\* executing, and whenever processQueue is not running nothing is queued or
\* executing.
C36_BatchesNeverOverlap ==
  /\ [](~isProcessing => (tasks = << >> /\ running = NoRead))
  /\ [][Len(tasks') > Len(tasks) =>
          (tasks = << >> /\ running = NoRead /\ ~isProcessing)]_vars
  /\ [][(running' # NoRead /\ running' # running) => running = NoRead]_vars

\* C36 witness: a tick fired while a read of the earlier batch is in flight
\* and another read of that batch is queued: the tick waits.
C36_Witness ==
  /\ isWaiting
  /\ isProcessing
  /\ running # NoRead
  /\ tasks # << >>

-----------------------------------------------------------------------------
(* The poll loop reading the chat feed: fetchLatestMessage and                *)
(* startMessagesFetchProcess (src/lib/core.ts:157-183, 211-228).              *)

MaxFeedLen == 3

\* A peer writes the next message of the chat feed: one that passes
\* validateGsocMessage or one that does not.
ChatFeedWritten(kind) ==
  /\ Len(chatFeed) < MaxFeedLen
  /\ chatFeed' = Append(chatFeed, kind)
  /\ UNCHANGED received
  /\ UNCHANGED pollVars
  /\ PollFeedFrame

\* What rawSocDownload at the feed index yields: "none" for a not-found error
FeedAt(feed, index) == IF index + 1 \in DOMAIN feed THEN feed[index + 1] ELSE "none"

\* fetchLatestMessage returned, then setTimeout(poll, 200).  Without an index
\* it returns at once; a download that throws (not found or another error) is
\* caught; an invalid message is logged; a valid one is emitted and gsocIndex
\* moves to the next index.
FetchLatestMessage(downloaded) ==
  /\ pollPc = "fetching"
  /\ pollPc' = "scheduled"
  /\ IF /\ gsocIndex # NoIndex
        /\ downloaded
        /\ FeedAt(chatFeed, gsocIndex) = "valid"
     THEN /\ received' = received \cup {gsocIndex}
          /\ gsocIndex' = gsocIndex + 1
     ELSE UNCHANGED <<received, gsocIndex>>
  /\ UNCHANGED <<initsPending, fetchProcessRunning, stopFetch, fetchCount, lastCall>>
  /\ UNCHANGED chatFeed
  /\ PollFeedFrame

\* The timeout runs poll while stopFetch is false: fetchLatestMessage again
PollAgain ==
  /\ pollPc = "scheduled"
  /\ ~stopFetch
  /\ pollPc' = "fetching"
  /\ UNCHANGED <<gsocIndex, initsPending, fetchProcessRunning, stopFetch, fetchCount, lastCall>>
  /\ UNCHANGED <<chatFeed, received>>
  /\ PollFeedFrame

InitFeedPoll == PollInit /\ FeedInit /\ OthersIdle({"poll", "feed"})

\* A running session: start() is called, init() settles with the index to
\* read next, peers write to the chat feed and the loop polls.
NextFeedPoll ==
  \/ PollStart
  \/ \E index \in 0..Len(chatFeed) : InitSettled(TRUE, index)
  \/ \E kind \in {"valid", "invalid"} : ChatFeedWritten(kind)
  \/ \E downloaded \in BOOLEAN : FetchLatestMessage(downloaded)
  \/ PollAgain

\* The timer fires, fetchLatestMessage returns, and a download that is tried
\* again and again succeeds at some time.
FairSpecFeedPoll ==
  /\ InitFeedPoll
  /\ [][NextFeedPoll]_vars
  /\ WF_vars(PollAgain)
  /\ WF_vars(\E downloaded \in BOOLEAN : FetchLatestMessage(downloaded))
  /\ SF_vars(FetchLatestMessage(TRUE))

\* C37: an invalid message at the feed index the loop reads does not starve
\* the pipeline: a valid message at a greater feed index is emitted at some time.
C37_InvalidMessageDoesNotStarve ==
  \A k \in 0..(MaxFeedLen - 1) : \A j \in 0..(MaxFeedLen - 1) :
    (/\ k < j
     /\ gsocIndex = k
     /\ pollPc # "none"
     /\ FeedAt(chatFeed, k) = "invalid"
     /\ FeedAt(chatFeed, j) = "valid") ~> (j \in received)

-----------------------------------------------------------------------------
(* retryAwaitableAsync (unnamed/part_027:17-39) *)

\* The greatest `retries` argument of a call, and the delays passed
MaxRetriesArg == 4
RetryDelays == {100, 250, 500}

\* A retryAwaitableAsync that stops one invocation earlier
ShouldRetry_OneLess(retriesLeft) == retriesLeft > 1

\* if (retries > 0)
ShouldRetry(retriesLeft) == retriesLeft > 0

\* retryAwaitableAsync(fn, retries, delay): the promise executor invokes fn()
RetryAwaitableAsyncCalled(retriesArg, delay) ==
  /\ retryCall.pc = "idle"
  /\ retryCall' = [NoRetryCall EXCEPT !.pc = "invoking", !.retries = retriesArg, !.delay = delay,
                                      !.n = retriesArg, !.invoked = 1]
  /\ RetryFrame

\* fn() fulfilled: .then(resolve) settles the promise of the outermost call
\* (the inner calls resolve outwards) with the value of this invocation.
FnFulfilled ==
  /\ retryCall.pc = "invoking"
  /\ retryCall' = [retryCall EXCEPT !.pc = "settled", !.settled = "fulfilled",
                                    !.by = retryCall.invoked]
  /\ RetryFrame

\* fn() rejected: with retries left setTimeout(..., delay), else the error is
\* handled and the promise rejects with it.
FnRejected ==
  /\ retryCall.pc = "invoking"
  /\ retryCall' = IF ShouldRetry(retryCall.retries)
                  THEN [retryCall EXCEPT !.pc = "sleeping",
                                         !.slept = Append(@, retryCall.delay)]
                  ELSE [retryCall EXCEPT !.pc = "settled", !.settled = "rejected",
                                         !.by = retryCall.invoked]
  /\ RetryFrame

\* The timer fires: retryAwaitableAsync(fn, retries - 1, delay) invokes fn()
RetryTimerFired ==
  /\ retryCall.pc = "sleeping"
  /\ retryCall' = [retryCall EXCEPT !.pc = "invoking", !.retries = @ - 1,
                                    !.invoked = @ + 1]
  /\ RetryFrame

\* The caller drops the settled promise
RetryForgotten ==
  /\ retryCall.pc = "settled"
  /\ retryCall' = NoRetryCall
  /\ RetryFrame

InitRetry == RetryInit /\ OthersIdle({"retry"})

NextRetry ==
  \/ \E retriesArg \in 0..MaxRetriesArg, delay \in RetryDelays :
       RetryAwaitableAsyncCalled(retriesArg, delay)
  \/ FnFulfilled
  \/ FnRejected
  \/ RetryTimerFired
  \/ RetryForgotten

SpecRetry == InitRetry /\ [][NextRetry]_vars

\* What C38 states about the result in either version: the promise fulfils
\* with the value of the invocation that succeeded, which is the last one made
\* (no invocation follows a success or a settled promise); it rejects with the
\* error of the last invocation; every wait between invocations is `delay`.
RetrySettlesByLastInvocation ==
  /\ [](retryCall.settled # "none" => retryCall.by = retryCall.invoked)
  /\ [](\A i \in DOMAIN retryCall.slept : retryCall.slept[i] = retryCall.delay)
  /\ [][retryCall.pc = "settled" => retryCall'.invoked <= retryCall.invoked]_vars

\* C38 (as stated): when every invocation fails, retryAwaitableAsync(op, N,
\* delay) rejects after having invoked op at most N times in total.
C38_AtMostNInvocations ==
  retryCall.settled = "rejected" => retryCall.invoked <= retryCall.n

\* C38 (amended): retryAwaitableAsync(op, N, delay) invokes op at most N + 1
\* times, waiting `delay` between the invocations: it fulfils with the value
\* of the first invocation that succeeds and invokes op no further; when every
\* invocation fails it rejects with the error of the last one, having invoked
\* op exactly N + 1 times.
C38_AtMostNPlusOneInvocations ==
  /\ RetrySettlesByLastInvocation
  /\ [](retryCall.invoked <= retryCall.n + 1)
  /\ [](retryCall.settled = "rejected" => retryCall.invoked = retryCall.n + 1)

\* C38 witness: a call with N = 2 rejected after every invocation failed
C38_Witness ==
  /\ retryCall.settled = "rejected"
  /\ retryCall.n = 2
  /\ Len(retryCall.slept) = 2

-----------------------------------------------------------------------------
(* SwarmReaction.loadReactionState / processLatestRef / handleRefError        *)
(* (unnamed/part_016:23-92).                                                  *)

ReactionMAX_RETRIES == 3

\* The head of the while loop of processLatestRef, run until the loop exits or
\* reaches its await: a pending reference other than the current one is taken
\* (isProcessing = true, latestPendingRef = null) and its download starts; a
\* banned one is dropped, and then the loop exits.
processLatestRef(pendingRef, currRef, banned) ==
  IF pendingRef # NoReactionRef /\ pendingRef # currRef /\ pendingRef \notin banned
  THEN [latestPendingRef |-> NoReactionRef, isProcessing |-> TRUE, download |-> pendingRef]
  ELSE [latestPendingRef |-> IF pendingRef # NoReactionRef /\ pendingRef # currRef
                             THEN NoReactionRef ELSE pendingRef,
        isProcessing |-> FALSE, download |-> NoReactionRef]

\* loadReactionState(ref): returns for the current or a banned reference, else
\* records it as the latest pending one and, unless a loop is processing, runs
\* processLatestRef up to its download.
LoadReactionState(ref) ==
  /\ lastRequestedRef' = ref
  /\ IF ref = currReactionStateRef \/ ref \in reactionBannedRefs
     THEN UNCHANGED <<latestPendingRef, reactionIsProcessing, reactionDownload>>
     ELSE IF reactionIsProcessing
          THEN /\ latestPendingRef' = ref
               /\ UNCHANGED <<reactionIsProcessing, reactionDownload>>
          ELSE LET loop == processLatestRef(ref, currReactionStateRef, reactionBannedRefs)
               IN /\ latestPendingRef' = loop.latestPendingRef
                  /\ reactionIsProcessing' = loop.isProcessing
                  /\ reactionDownload' = loop.download
  /\ UNCHANGED <<currReactionStateRef, reactionRetryCount, reactionBannedRefs,
                 failedReactionRefs>>
  /\ ReactFrame

\* downloadObjectFromBee resolved with a valid reaction state: the retry count
\* is deleted, the reference becomes the current one, the event is emitted,
\* isProcessing is reset and the loop goes on with what is pending now.
ReactionStateDownloaded ==
  /\ reactionDownload # NoReactionRef
  /\ reactionRetryCount' = MapDelete(reactionRetryCount, reactionDownload)
  /\ currReactionStateRef' = reactionDownload
  /\ LET loop == processLatestRef(latestPendingRef, reactionDownload, reactionBannedRefs)
     IN /\ latestPendingRef' = loop.latestPendingRef
        /\ reactionIsProcessing' = loop.isProcessing
        /\ reactionDownload' = loop.download
  /\ UNCHANGED <<reactionBannedRefs, lastRequestedRef, failedReactionRefs>>
  /\ ReactFrame

\* handleRefError(ref): the retry count after the failure, the ban at
\* MAX_RETRIES, and the reference made pending again when nothing is pending
handleReactionRefError(ref, retryCount, banned, pendingRef) ==
  LET newRetryCount == (IF ref \in DOMAIN retryCount THEN retryCount[ref] ELSE 0) + 1
  IN IF newRetryCount >= ReactionMAX_RETRIES
     THEN [retryCount |-> MapDelete(retryCount, ref), banned |-> banned \cup {ref},
           latestPendingRef |-> pendingRef]
     ELSE [retryCount |-> MapSet(retryCount, ref, newRetryCount), banned |-> banned,
           latestPendingRef |-> IF pendingRef = NoReactionRef THEN ref ELSE pendingRef]

\* The download rejected or the reaction state is invalid: handleRefError,
\* isProcessing is reset and the loop goes on with what is pending now.
ReactionStateFailed ==
  /\ reactionDownload # NoReactionRef
  /\ failedReactionRefs' = failedReactionRefs \cup {reactionDownload}
  /\ LET handled == handleReactionRefError(reactionDownload, reactionRetryCount,
                                           reactionBannedRefs, latestPendingRef)
         loop == processLatestRef(handled.latestPendingRef, currReactionStateRef,
                                  handled.banned)
     IN /\ reactionRetryCount' = handled.retryCount
        /\ reactionBannedRefs' = handled.banned
        /\ latestPendingRef' = loop.latestPendingRef
        /\ reactionIsProcessing' = loop.isProcessing
        /\ reactionDownload' = loop.download
  /\ UNCHANGED <<currReactionStateRef, lastRequestedRef>>
  /\ ReactFrame

InitReaction == ReactInit /\ OthersIdle({"react"})

NextReaction ==
  \/ \E ref \in ReactionRefs : LoadReactionState(ref)
  \/ ReactionStateDownloaded
  \/ ReactionStateFailed

SpecReaction == InitReaction /\ [][NextReaction]_vars

\* C39: when no download is in flight and nothing is pending, the current
\* reaction state reference is the one passed to the last loadReactionState
\* call, provided no download of that reference failed and it is not banned.
C39_ConvergesToLastRequested ==
  (/\ reactionDownload = NoReactionRef
   /\ ~reactionIsProcessing
   /\ lastRequestedRef # NoReactionRef
   /\ lastRequestedRef \notin reactionBannedRefs
   /\ lastRequestedRef \notin failedReactionRefs)
    => currReactionStateRef = lastRequestedRef

-----------------------------------------------------------------------------
(* PollingTransport.start / stop / poll (unnamed/part_028:26-63) *)

\* The poll chains of a run
MaxChains == 5

\* onMessage(callback)
OnMessage ==
  /\ ~messageCallback
  /\ messageCallback' = TRUE
  /\ UNCHANGED <<transportIsRunning, stopRequested, fetchingChains, scheduledChains,
                 callbackCalled>>
  /\ TransportFrame

\* start(): returns when isRunning, else sets the flags and calls poll(), which
\* finds stopRequested false and awaits fetchMessage().
TransportStart ==
  /\ IF transportIsRunning
     THEN UNCHANGED <<transportIsRunning, stopRequested, fetchingChains>>
     ELSE /\ fetchingChains + scheduledChains < MaxChains
          /\ transportIsRunning' = TRUE
          /\ stopRequested' = FALSE
          /\ fetchingChains' = fetchingChains + 1
  /\ UNCHANGED <<messageCallback, scheduledChains, callbackCalled>>
  /\ TransportFrame

\* stop()
TransportStop ==
  /\ stopRequested' = TRUE
  /\ transportIsRunning' = FALSE
  /\ UNCHANGED <<messageCallback, fetchingChains, scheduledChains, callbackCalled>>
  /\ TransportFrame

\* fetchMessage() settled in one poll(): a message goes to the callback, null
\* or an error (caught) goes nowhere; then setTimeout(() => this.poll(), interval).
FetchMessageSettled(message) ==
  /\ fetchingChains > 0
  /\ fetchingChains' = fetchingChains - 1
  /\ scheduledChains' = scheduledChains + 1
  /\ callbackCalled' = (callbackCalled \/ (message /\ messageCallback))
  /\ UNCHANGED <<transportIsRunning, stopRequested, messageCallback>>
  /\ TransportFrame

\* A timer fires poll(): with stopRequested it resets isRunning and returns,
\* else it awaits fetchMessage() again.
TransportPoll ==
  /\ scheduledChains > 0
  /\ scheduledChains' = scheduledChains - 1
  /\ IF stopRequested
     THEN /\ transportIsRunning' = FALSE
          /\ UNCHANGED fetchingChains
     ELSE /\ fetchingChains' = fetchingChains + 1
          /\ UNCHANGED transportIsRunning
  /\ UNCHANGED <<stopRequested, messageCallback, callbackCalled>>
  /\ TransportFrame

InitTransport == TransportInit /\ OthersIdle({"transport"})

NextTransport ==
  \/ OnMessage
  \/ TransportStart
  \/ TransportStop
  \/ \E message \in BOOLEAN : FetchMessageSettled(message)
  \/ TransportPoll

SpecTransport == InitTransport /\ [][NextTransport]_vars

\* C40: at most one poll chain exists at any time: the poll() calls awaiting
\* fetchMessage and the pending timers that will run fetchMessage (those a
\* stop request does not end) are one at most.
C40_AtMostOnePollChain ==
  fetchingChains + (IF stopRequested THEN 0 ELSE scheduledChains) <= 1

=============================================================================
